---- MODULE Spec2Model ----
(***************************************************************************)
(* Model of the browser-etl pipeline engine (ETLPipeline), of its retry    *)
(* policy (ErrorRecovery), of the enrich and join transformers, of the     *)
(* stream processor, of the Cache utility and of the PluginManager.  Each  *)
(* component has its own variables and its own specification; the          *)
(* variables of the other components stay as constructed.                  *)
(*                                                                         *)
(* Values carried through a pipeline are strings; "" is the JavaScript     *)
(* empty string (falsy), "null" and "undefined" stand for the JavaScript   *)
(* null and undefined.  A thrown value is a record [isError, text]:        *)
(* isError tells an Error instance from any other thrown value, text is    *)
(* error.message for the former and String(value) for the latter.  Texts   *)
(* are tuples of string parts (a template string is the tuple of its       *)
(* parts).  Wall-clock time is the variable now, in abstract units.        *)
(***************************************************************************)
EXTENDS Integers, Sequences, FiniteSets, TLC

\* ---------------------------------------------------------------- bounds
MaxSteps == 2
MaxRuns == 2
MaxTime == 3
MaxCacheDuration == 1
MaxRetries == 2
MaxRetryDelay == 2
MaxMultiplier == 3
MaxDelayCap == 4
MaxLen == 3
MaxBatch == 2
MaxRows == 2
MaxTtl == 1
MaxOps == 3
MaxStreams == 2
MaxChunks == 2
MaxNegBatch == 1

\* ------------------------------------------------------- JavaScript values
Null == "null"
Undefined == "undefined"

\* JavaScript truthiness of a carried value (if (cachedData), x || null).
Truthy(v) == v \notin {"", Null, Undefined}

\* What a mocked extractor / transformer / loader may resolve with.
ExtractValues == {"", "d1"}
TransformValues == {"t1"}
LoadValues == {"l1"}

\* What a capability may throw or reject with: an Error or a plain string.
Thrown == {[isError |-> TRUE, text |-> <<"boom">>],
           [isError |-> FALSE, text |-> <<"oops">>]}

\* error instanceof Error ? error.message : String(error)
Message(e) == e.text

\* error instanceof Error ? error : new Error(String(error))
ToError(e) == IF e.isError THEN e ELSE [isError |-> TRUE, text |-> e.text]

NoError == [isError |-> FALSE, text |-> <<>>]

\* ------------------------------------------------------------ step lists
StepTypes == {"extract", "transform", "load"}
\* The name under which the capability of each kind is registered.
NameOf(t) == CASE t = "extract" -> "test-extractor"
               [] t = "transform" -> "test-transformer"
               [] t = "load" -> "test-loader"
\* A step config is the tuple of its own enumerable properties; config || {}
\* makes an omitted config the empty object.
Configs == {<<>>}

\* JSON.stringify of a step config.
JSONstringify(c) == <<"{">> \o c \o <<"}">>

\* Steps pushed by extract(), transform() and load(): optional is not set.
\* A step with optional: true is pushed onto the step list directly.
StepsOf(t) == [type : {t}, name : {NameOf(t)},
               config : Configs,
               optional : BOOLEAN]

RemoveKey(m, k) == [x \in DOMAIN m \ {k} |-> m[x]]
PutKey(m, k, v) == [x \in DOMAIN m \cup {k} |-> IF x = k THEN v ELSE m[x]]
EmptyMap == [x \in {} |-> Null]

VARIABLES extractors, transformers, loaders, steps, config,
          cache, cacheTimestamps, now,
          pc, stepIdx, currentData, stepResults, cacheHits, cacheMisses,
          pending, result, runs,
          started, invoked, served, evicted, raised,
          recConfig, recPc, attempt, lastError, context, calls, waits,
          thrownLog, outcome

\* EnrichTransformer: one call of transform(data, config).
VARIABLES enKind, enItems, enParallel, enBatchSize,
          enPc, enI, enResults, enFlight, enSlots, enOrder,
          enValue, enError,
          enStarts, enLog, enRejected

\* StreamProcessor: one call of process(data, processor, onBatch).
VARIABLES stEnabled, stBatchSize, stData, stOnBatch,
          stPc, stI, stResults, stValue, stError, stAbandoned,
          stCalls, stOutcomes, stOnBatchLog

\* JoinTransformer: one call of transform(data, config).
VARIABLES jnLeft, jnRight, jnMode, jnJoinFn, jnPc, jnOut,
          jnLeftKind, jnRightKind, jnError, jnCombined

\* Cache: the storage of one Cache object, and its clock.
VARIABLES chStorage, chDefaultTTL, chNow, chRet

\* PluginManager: the plugins and registries of one manager, and its calls.
VARIABLES pmPlugins, pmExtractors, pmTransformers, pmLoaders, pmCalls, pmOutcome, pmOverlap

\* ErrorRecovery: one call of executeMultipleWithRecovery(functions, context).
VARIABLES muConfig, muLen, muContext, muPc, muI, muOps, muResults, muErrors,
          muFirst

\* ETLPipeline with runs in flight: config, cache, clock, the calls of run()
VARIABLES ovConfig, ovCache, ovTs, ovNow, ovRuns, ovInvoked

\* StreamProcessor.mergeStreams: the inputs, the pumps, the merged stream
VARIABLES mgInputs, mgPumps, mgCompleted, mgMerged

\* The chunking loops of process and enrichParallel
VARIABLES ckKind, ckLen, ckBatchSize, ckPc, ckI, ckSlice, ckPushed

regs == <<extractors, transformers, loaders>>
cacheVars == <<cache, cacheTimestamps>>
locals == <<stepIdx, currentData, stepResults, cacheHits, cacheMisses>>
ghosts == <<started, invoked, served, evicted, raised>>
pipeVars == <<extractors, transformers, loaders, steps, config,
              cache, cacheTimestamps, now,
              pc, stepIdx, currentData, stepResults, cacheHits, cacheMisses,
              pending, result, runs, started, invoked, served, evicted, raised>>

recVars == <<recConfig, recPc, attempt, lastError, context, calls, waits,
             thrownLog, outcome>>
enrichVars == <<enKind, enItems, enParallel, enBatchSize,
                enPc, enI, enResults, enFlight, enSlots, enOrder,
                enValue, enError, enStarts, enLog, enRejected>>
streamVars == <<stEnabled, stBatchSize, stData, stOnBatch,
                stPc, stI, stResults, stValue, stError, stAbandoned,
                stCalls, stOutcomes, stOnBatchLog>>
joinVars == <<jnLeft, jnRight, jnMode, jnJoinFn, jnPc, jnOut,
              jnLeftKind, jnRightKind, jnError, jnCombined>>
utilCacheVars == <<chStorage, chDefaultTTL, chNow, chRet>>
pluginVars == <<pmPlugins, pmExtractors, pmTransformers, pmLoaders, pmCalls, pmOutcome, pmOverlap>>
multiVars == <<muConfig, muLen, muContext, muPc, muI, muOps, muResults, muErrors, muFirst>>
overlapVars == <<ovConfig, ovCache, ovTs, ovNow, ovRuns, ovInvoked>>
mergeVars == <<mgInputs, mgPumps, mgCompleted, mgMerged>>
chunkVars == <<ckKind, ckLen, ckBatchSize, ckPc, ckI, ckSlice, ckPushed>>
nonPipeVars == <<recVars, enrichVars, streamVars, joinVars, utilCacheVars, pluginVars, multiVars, overlapVars, mergeVars, chunkVars>>
nonRecVars == <<pipeVars, enrichVars, streamVars, joinVars, utilCacheVars, pluginVars, multiVars, overlapVars, mergeVars, chunkVars>>
nonEnrichVars == <<pipeVars, recVars, streamVars, joinVars, utilCacheVars, pluginVars, multiVars, overlapVars, mergeVars, chunkVars>>
nonStreamVars == <<pipeVars, recVars, enrichVars, joinVars, utilCacheVars, pluginVars, multiVars, overlapVars, mergeVars, chunkVars>>
nonJoinVars == <<pipeVars, recVars, enrichVars, streamVars, utilCacheVars, pluginVars, multiVars, overlapVars, mergeVars, chunkVars>>
nonCacheVars == <<pipeVars, recVars, enrichVars, streamVars, joinVars, pluginVars, multiVars, overlapVars, mergeVars, chunkVars>>
nonPluginVars == <<pipeVars, recVars, enrichVars, streamVars, joinVars, utilCacheVars, multiVars, overlapVars, mergeVars, chunkVars>>
nonMultiVars == <<pipeVars, recVars, enrichVars, streamVars, joinVars, utilCacheVars, pluginVars, overlapVars, mergeVars, chunkVars>>
nonOverlapVars == <<pipeVars, recVars, enrichVars, streamVars, joinVars, utilCacheVars, pluginVars, multiVars, mergeVars, chunkVars>>
nonMergeVars == <<pipeVars, recVars, enrichVars, streamVars, joinVars, utilCacheVars, pluginVars, multiVars, overlapVars, chunkVars>>
nonChunkVars == <<pipeVars, recVars, enrichVars, streamVars, joinVars, utilCacheVars, pluginVars, multiVars, overlapVars, mergeVars>>

NoPending == [type |-> "none", idx |-> 0, arg |-> Null]
NoResult == [returned |-> FALSE, data |-> Null, success |-> FALSE,
             error |-> NoError, steps |-> <<>>, cacheHits |-> 0, cacheMisses |-> 0]

\* ------------------------------------------------------------ ETLPipeline
\* `${step.type}:${step.name}:${JSON.stringify(step.config)}`
generateCacheKey(step) == <<step.type, step.name, JSONstringify(step.config)>>

\* As getCachedData, but an expired entry is reported absent and left in place.
getCachedData_KeepsStale(key, c, ts, t, duration) ==
  IF key \notin DOMAIN ts \/ ts[key] = 0
    THEN [data |-> Null, cache |-> c, ts |-> ts]
  ELSE IF t - ts[key] > duration
    THEN [data |-> Null, cache |-> c, ts |-> ts]
  ELSE [data |-> IF key \in DOMAIN c /\ Truthy(c[key]) THEN c[key] ELSE Null,
        cache |-> c, ts |-> ts]

\* getCachedData: the value read (null for a miss) and the maps afterwards.
getCachedData(key, c, ts, t, duration) ==
  IF key \notin DOMAIN ts \/ ts[key] = 0
    THEN [data |-> Null, cache |-> c, ts |-> ts]
  ELSE IF t - ts[key] > duration
    THEN [data |-> Null, cache |-> RemoveKey(c, key), ts |-> RemoveKey(ts, key)]
  ELSE [data |-> IF key \in DOMAIN c /\ Truthy(c[key]) THEN c[key] ELSE Null,
        cache |-> c, ts |-> ts]

\* The registry a step is resolved in.
Registry(step) == CASE step.type = "extract" -> extractors
                    [] step.type = "transform" -> transformers
                    [] step.type = "load" -> loaders

NotFound(step) ==
  [isError |-> TRUE,
   text |-> <<CASE step.type = "extract" -> "Extractor '"
                [] step.type = "transform" -> "Transformer '"
                [] step.type = "load" -> "Loader '",
              step.name, "' not found">>]

\* The entries run() pushes onto stepResults.
stepSucceeded(results, step) ==
  Append(results, [name |-> step.name, success |-> TRUE, error |-> <<>>])

\* As stepFailed, but a failed step leaves no entry.
stepFailed_NoEntry(results, step, e) == results

stepFailed(results, step, e) ==
  Append(results, [name |-> step.name, success |-> FALSE, error |-> Message(e)])

\* As rethrows, but the optional flag is ignored.
rethrows_Always(step) == TRUE

\* if (!step.optional) throw error
rethrows(step) == ~step.optional

\* As failureResult, but the carried value is dropped.
failureResult_NullData(data, results, hits, misses, e) ==
  [returned |-> TRUE, data |-> Null, success |-> FALSE, error |-> ToError(e),
   steps |-> results, cacheHits |-> hits, cacheMisses |-> misses]

\* The value run() returns from its catch block.
failureResult(data, results, hits, misses, e) ==
  [returned |-> TRUE, data |-> data, success |-> FALSE, error |-> ToError(e),
   steps |-> results, cacheHits |-> hits, cacheMisses |-> misses]

\* The value run() returns after the loop.
successResult(data, results, hits, misses) ==
  [returned |-> TRUE, data |-> data, success |-> TRUE, error |-> NoError,
   steps |-> results, cacheHits |-> hits, cacheMisses |-> misses]

\* As afterLoad, but the value the loader resolved with is carried on.
afterLoad_Returned(data, v) == v

\* await this.executeLoadStep(step, currentData): currentData is not assigned.
afterLoad(data, v) == data

PipelineInit ==
  /\ extractors = {} /\ transformers = {} /\ loaders = {}
  /\ steps = <<>>
  /\ config \in [enableCache : BOOLEAN, cacheDuration : {MaxCacheDuration}]
  /\ cache = EmptyMap /\ cacheTimestamps = EmptyMap
  /\ now = 1
  /\ pc = "idle" /\ stepIdx = 0 /\ currentData = Null /\ stepResults = <<>>
  /\ cacheHits = 0 /\ cacheMisses = 0
  /\ pending = NoPending /\ result = NoResult /\ runs = 0
  /\ started = <<>> /\ invoked = <<>> /\ served = <<>> /\ evicted = {}
  /\ raised = NoError

\* No run() is in flight.  In Spec the caller registers capabilities and adds
\* steps before the first run, and calls updateConfig, clearCache and run only
\* between runs; the clock may advance at any time.
Idle == pc \in {"idle", "done"}

registerExtractor ==
  /\ Idle /\ runs = 0
  /\ extractors' = extractors \cup {NameOf("extract")}
  /\ UNCHANGED <<transformers, loaders, steps, config, cacheVars, now, pc,
                 locals, pending, result, runs, ghosts>>
  /\ UNCHANGED nonPipeVars

registerTransformer ==
  /\ Idle /\ runs = 0
  /\ transformers' = transformers \cup {NameOf("transform")}
  /\ UNCHANGED <<extractors, loaders, steps, config, cacheVars, now, pc,
                 locals, pending, result, runs, ghosts>>
  /\ UNCHANGED nonPipeVars

registerLoader ==
  /\ Idle /\ runs = 0
  /\ loaders' = loaders \cup {NameOf("load")}
  /\ UNCHANGED <<extractors, transformers, steps, config, cacheVars, now, pc,
                 locals, pending, result, runs, ghosts>>
  /\ UNCHANGED nonPipeVars

\* extract(), transform(), load() and a direct push of an optional step.
addStep(t) ==
  /\ Idle /\ runs = 0 /\ Len(steps) < MaxSteps
  /\ \E s \in StepsOf(t) : steps' = Append(steps, s)
  /\ UNCHANGED <<regs, config, cacheVars, now, pc, locals, pending, result,
                 runs, ghosts>>
  /\ UNCHANGED nonPipeVars

extract == addStep("extract")
transform == addStep("transform")
load == addStep("load")

updateConfig ==
  /\ Idle
  /\ \E newConfig \in [enableCache : BOOLEAN, cacheDuration : {MaxCacheDuration}] :
       /\ newConfig # config
       /\ config' = newConfig
  /\ UNCHANGED <<regs, steps, cacheVars, now, pc, locals, pending, result,
                 runs, ghosts>>
  /\ UNCHANGED nonPipeVars

clearCache ==
  /\ Idle
  /\ DOMAIN cacheTimestamps # {}
  /\ cache' = EmptyMap /\ cacheTimestamps' = EmptyMap
  /\ UNCHANGED <<regs, steps, config, now, pc, locals, pending, result,
                 runs, ghosts>>
  /\ UNCHANGED nonPipeVars

Tick ==
  /\ now < MaxTime
  /\ now' = now + 1
  /\ UNCHANGED <<regs, steps, config, cacheVars, pc, locals, pending, result,
                 runs, ghosts>>
  /\ UNCHANGED nonPipeVars

\* run(): the locals are initialised and the loop is entered.
run ==
  /\ Idle /\ runs < MaxRuns
  /\ runs' = runs + 1
  /\ pc' = "loop" /\ stepIdx' = 1
  /\ currentData' = Null /\ stepResults' = <<>>
  /\ cacheHits' = 0 /\ cacheMisses' = 0
  /\ pending' = NoPending /\ result' = NoResult
  /\ started' = <<>> /\ invoked' = <<>> /\ served' = <<>> /\ evicted' = {}
  /\ raised' = NoError
  /\ UNCHANGED <<regs, steps, config, cacheVars, now>>
  /\ UNCHANGED nonPipeVars

\* The step at stepIdx has completed with the carried value data.
StepOk(data) ==
  /\ currentData' = data
  /\ stepResults' = stepSucceeded(stepResults, steps[stepIdx])
  /\ stepIdx' = stepIdx + 1
  /\ pc' = "loop"
  /\ pending' = NoPending
  /\ UNCHANGED <<result, cacheHits, cacheMisses>>

\* The step at stepIdx has thrown e: the inner catch, then perhaps the outer.
StepThrew(e) ==
  LET results == stepFailed(stepResults, steps[stepIdx], e) IN
  /\ stepResults' = results
  /\ pending' = NoPending
  /\ IF rethrows(steps[stepIdx])
       THEN /\ pc' = "done"
            /\ result' = failureResult(currentData, results, cacheHits, cacheMisses, e)
            /\ UNCHANGED stepIdx
       ELSE /\ pc' = "loop"
            /\ stepIdx' = stepIdx + 1
            /\ UNCHANGED result
  /\ UNCHANGED <<currentData, cacheHits, cacheMisses>>

\* One iteration of the loop up to the call of the capability.
executeStep ==
  /\ pc = "loop" /\ stepIdx <= Len(steps)
  /\ LET step == steps[stepIdx] IN
     /\ started' = Append(started, stepIdx)
     /\ raised' = NoError
     /\ IF step.name \notin Registry(step)
          THEN /\ StepThrew(NotFound(step))
               /\ UNCHANGED <<cacheVars, invoked, served, evicted>>
        ELSE IF step.type = "extract" /\ config.enableCache
          THEN LET key == generateCacheKey(step)
                   got == getCachedData(key, cache, cacheTimestamps, now,
                                        config.cacheDuration)
               IN /\ cache' = got.cache
                  /\ cacheTimestamps' = got.ts
                  /\ evicted' = evicted \cup (DOMAIN cacheTimestamps \ DOMAIN got.ts)
                  /\ IF Truthy(got.data)
                       THEN /\ StepOk(got.data)
                            /\ served' = Append(served, stepIdx)
                            /\ UNCHANGED invoked
                       ELSE /\ pc' = "awaiting"
                            /\ pending' = [type |-> step.type, idx |-> stepIdx,
                                           arg |-> Null]
                            /\ invoked' = Append(invoked, stepIdx)
                            /\ UNCHANGED <<locals, result, served>>
        ELSE /\ pc' = "awaiting"
             /\ pending' = [type |-> step.type, idx |-> stepIdx,
                            arg |-> IF step.type = "extract" THEN Null
                                    ELSE currentData]
             /\ invoked' = Append(invoked, stepIdx)
             /\ UNCHANGED <<locals, result, cacheVars, served, evicted>>
  /\ UNCHANGED <<regs, steps, config, now, runs>>
  /\ UNCHANGED nonPipeVars

\* The awaited capability resolves with v.
capabilityResolves ==
  /\ pc = "awaiting"
  /\ LET step == steps[stepIdx] IN
     \/ /\ step.type = "extract"
        /\ \E v \in ExtractValues :
             /\ StepOk(v)
             /\ IF config.enableCache
                  THEN /\ cache' = PutKey(cache, generateCacheKey(step), v)
                       /\ cacheTimestamps' =
                            PutKey(cacheTimestamps, generateCacheKey(step), now)
                  ELSE UNCHANGED cacheVars
     \/ /\ step.type = "transform"
        /\ \E v \in TransformValues : StepOk(v)
        /\ UNCHANGED cacheVars
     \/ /\ step.type = "load"
        /\ \E v \in LoadValues : StepOk(afterLoad(currentData, v))
        /\ UNCHANGED cacheVars
  /\ UNCHANGED <<regs, steps, config, now, runs, ghosts>>
  /\ UNCHANGED nonPipeVars

\* The awaited capability throws or rejects with e.
capabilityRejects ==
  /\ pc = "awaiting"
  /\ \E e \in Thrown : StepThrew(e) /\ raised' = e
  /\ UNCHANGED <<regs, steps, config, cacheVars, now, runs, started, invoked,
                 served, evicted>>
  /\ UNCHANGED nonPipeVars

\* The loop is over: run() returns the success result.
runReturns ==
  /\ pc = "loop" /\ stepIdx > Len(steps)
  /\ pc' = "done"
  /\ result' = successResult(currentData, stepResults, cacheHits, cacheMisses)
  /\ UNCHANGED <<regs, steps, config, cacheVars, now, locals, pending, runs,
                 ghosts>>
  /\ UNCHANGED nonPipeVars

\* ---------------------------------------------------------- ErrorRecovery
\* What the wrapped operation may resolve with.
OpValues == {"ok1", "ok2"}

\* The label argument: absent, the empty string, or a label.
Contexts == {Undefined, "", "op"}

RecoveryConfigs ==
  [enabled : BOOLEAN, maxRetries : 0..MaxRetries, retryDelay : 1..MaxRetryDelay,
   backoffMultiplier : 1..MaxMultiplier, maxRetryDelay : 1..MaxDelayCap]

RECURSIVE Pow(_, _)
Pow(b, e) == IF e = 0 THEN 1 ELSE b * Pow(b, e - 1)

Min(a, b) == IF a <= b THEN a ELSE b

\* As calculateDelay, but the exponent is the attempt number itself.
calculateDelay_OffByOne(cfg, n) ==
  Min(cfg.retryDelay * Pow(cfg.backoffMultiplier, n), cfg.maxRetryDelay)

\* calculateDelay(attempt)
calculateDelay(cfg, n) ==
  LET baseDelay == cfg.retryDelay
      exponentialDelay == baseDelay * Pow(cfg.backoffMultiplier, n - 1)
  IN Min(exponentialDelay, cfg.maxRetryDelay)

\* while (attempt <= this.config.maxRetries)
loopContinues(cfg, n) == n <= cfg.maxRetries

\* if (attempt > this.config.maxRetries) break
retriesExhausted(cfg, n) == n > cfg.maxRetries

\* As recordError, but the first error is kept.
recordError_KeepsFirst(prev, e) == IF prev = NoError THEN ToError(e) ELSE prev

\* lastError = error instanceof Error ? error : new Error(String(error))
recordError(prev, e) == ToError(e)

\* As nextAttempt, but the counter is set to 1 instead of advanced.
nextAttempt_Stuck(n) == 1

\* attempt++
nextAttempt(n) == n + 1

\* lastError!.message when no attempt was made: reading .message of undefined.
TypeErrorThrown == [isError |-> TRUE, text |-> <<"TypeError">>]

\* The error thrown after the loop.
exhaustedError(cfg, ctx, last) ==
  [isError |-> TRUE,
   text |-> <<"Operation failed after ", ToString(cfg.maxRetries), " retries">>
            \o (IF Truthy(ctx) THEN <<" for ", ctx>> ELSE <<>>)
            \o <<": ">> \o Message(last)]

NoOutcome == [kind |-> "none", value |-> Null, error |-> NoError]

RecoveryQuiet ==
  /\ recConfig = [enabled |-> TRUE, maxRetries |-> 0, retryDelay |-> 1,
                  backoffMultiplier |-> 1, maxRetryDelay |-> 1]
  /\ recPc = "idle" /\ attempt = 0 /\ lastError = NoError
  /\ context = Undefined /\ calls = 0 /\ waits = <<>> /\ thrownLog = <<>>
  /\ outcome = NoOutcome

RecoveryInit ==
  /\ recConfig \in RecoveryConfigs
  /\ recPc = "idle" /\ attempt = 0 /\ lastError = NoError
  /\ context = Undefined /\ calls = 0 /\ waits = <<>> /\ thrownLog = <<>>
  /\ outcome = NoOutcome

PipelineQuiet ==
  /\ PipelineInit
  /\ config.enableCache

\* executeWithRecovery(fn, context) up to the first call of fn.
executeWithRecovery ==
  /\ recPc = "idle"
  /\ \E ctx \in Contexts : context' = ctx
  /\ attempt' = 0
  /\ IF ~recConfig.enabled \/ loopContinues(recConfig, 0)
       THEN /\ recPc' = "calling"
            /\ calls' = calls + 1
            /\ UNCHANGED outcome
       ELSE /\ recPc' = "thrown"
            /\ outcome' = [kind |-> "thrown", value |-> Null,
                           error |-> TypeErrorThrown]
            /\ UNCHANGED calls
  /\ UNCHANGED <<recConfig, lastError, waits, thrownLog, nonRecVars>>

\* await fn() resolves with v: the value is returned.
fnResolves ==
  /\ recPc = "calling"
  /\ \E v \in OpValues :
       outcome' = [kind |-> "returned", value |-> v, error |-> NoError]
  /\ recPc' = "returned"
  /\ UNCHANGED <<recConfig, attempt, lastError, context, calls, waits,
                 thrownLog, nonRecVars>>

\* await fn() rejects with e: passed through, retried after a sleep, or wrapped.
fnRejects ==
  /\ recPc = "calling"
  /\ \E e \in Thrown :
       /\ thrownLog' = Append(thrownLog, e)
       /\ IF ~recConfig.enabled
            THEN /\ recPc' = "thrown"
                 /\ outcome' = [kind |-> "thrown", value |-> Null, error |-> e]
                 /\ UNCHANGED <<attempt, lastError, waits>>
          ELSE /\ lastError' = recordError(lastError, e)
               /\ attempt' = nextAttempt(attempt)
               /\ IF retriesExhausted(recConfig, attempt')
                    THEN /\ recPc' = "thrown"
                         /\ outcome' = [kind |-> "thrown", value |-> Null,
                                        error |-> exhaustedError(recConfig, context,
                                                                 lastError')]
                         /\ UNCHANGED waits
                    ELSE /\ recPc' = "sleeping"
                         /\ waits' = Append(waits, calculateDelay(recConfig, attempt'))
                         /\ UNCHANGED outcome
  /\ UNCHANGED <<recConfig, context, calls, nonRecVars>>

\* The sleep is over: the loop condition is tested and fn is called again.
sleepElapsed ==
  /\ recPc = "sleeping"
  /\ IF loopContinues(recConfig, attempt)
       THEN /\ recPc' = "calling"
            /\ calls' = calls + 1
            /\ UNCHANGED outcome
       ELSE /\ recPc' = "thrown"
            /\ outcome' = [kind |-> "thrown", value |-> Null,
                           error |-> exhaustedError(recConfig, context, lastError)]
            /\ UNCHANGED calls
  /\ UNCHANGED <<recConfig, attempt, lastError, context, waits, thrownLog,
                 nonRecVars>>

\* -------------------------------------------------------- EnrichTransformer
\* Array elements are numbers; an object is the sequence of its entries
\* <<key, value>> in Object.entries order (keys are distinct).
ItemValues == {1, 2}
Keys == {"a", "b"}
Arrays == UNION {[1..n -> ItemValues] : n \in 0..MaxLen}
ObjectEntries ==
  {s \in UNION {[1..n -> Keys \X ItemValues] : n \in 0..Cardinality(Keys)} :
     \A i, j \in DOMAIN s : i # j => s[i][1] # s[j][1]}

\* What fn is called with: an array element, the object { key, value }, or
\* the entry [key, value] as Object.entries yields it.
NumberArg(x) == [shape |-> "number", key |-> "", value |-> x]
ObjectArg(e) == [shape |-> "object", key |-> e[1], value |-> e[2]]
ArrayArg(e) == [shape |-> "array", key |-> e[1], value |-> e[2]]

\* The argument the code passes for one item of the input.
argOf(kind, par, item) ==
  IF kind = "array" THEN NumberArg(item)
  ELSE IF par THEN ArrayArg(item) ELSE ObjectArg(item)

\* undefined * 2
NaN == 0 - 1

\* The caller's function: x => x * 2 on elements, ({ value }) => value * 2 on
\* entries; the property value of an array [key, value] is undefined.
Fn(arg) == IF arg.shape = "array" THEN NaN ELSE arg.value * 2

\* The calls one await waits for: a batch data.slice(i, i + batchSize) mapped
\* through fn, or the single call of the sequential loop.
awaitedCalls_AllAtOnce(par, i, bs, len) == (i + 1)..Min(i + bs, len)

awaitedCalls(par, i, bs, len) ==
  IF par THEN (i + 1)..Min(i + bs, len) ELSE {i + 1}

\* i += batchSize, or the next item of for...of.
nextIndex_Overlap(par, i, bs) == i + 1

nextIndex(par, i, bs) == IF par THEN i + bs ELSE i + 1

\* Promise.all: the results by position of the promise, not by completion.
promiseAll_CompletionOrder(slots, order, from, to) ==
  [k \in 1..(to - from + 1) |-> slots[order[k]]]

promiseAll(slots, order, from, to) ==
  [k \in 1..(to - from + 1) |-> slots[from + k - 1]]

\* enriched[key] = result, for each entry in turn.
ObjectOf(items, results) ==
  [k \in {items[j][1] : j \in DOMAIN items} |->
     results[CHOOSE j \in DOMAIN items : items[j][1] = k]]

\* The end of transform.  In the parallel object branch each result of fn is
\* destructured as [key, value]: a number is not iterable, a TypeError is thrown.
enrichReturns(results) ==
  IF enKind = "object" /\ enParallel /\ results # <<>>
    THEN /\ enPc' = "thrown"
         /\ enError' = TypeErrorThrown
         /\ UNCHANGED enValue
    ELSE /\ enPc' = "returned"
         /\ enValue' = (IF enKind = "array" THEN results
                        ELSE ObjectOf(enItems, results))
         /\ UNCHANGED enError

\* One test of the loop condition at index i: the next calls of fn are made,
\* or the loop is over.
enrichLoop(i, results) ==
  /\ enI' = i
  /\ enResults' = results
  /\ IF i < Len(enItems)
       THEN LET batch == awaitedCalls(enParallel, i, enBatchSize, Len(enItems)) IN
            /\ enPc' = "awaiting"
            /\ enFlight' = enFlight \cup batch
            /\ enSlots' = EmptyMap
            /\ enOrder' = <<>>
            /\ enStarts' = Append(enStarts,
                                  [from |-> i + 1, to |-> i + Cardinality(batch),
                                   flight |-> enFlight,
                                   failed |-> Len(enRejected)])
            /\ enLog' = enLog \o
                 [k \in 1..Cardinality(batch) |->
                    [pos |-> i + k,
                     arg |-> argOf(enKind, enParallel, enItems[i + k])]]
            /\ UNCHANGED <<enValue, enError>>
       ELSE /\ enrichReturns(results)
            /\ UNCHANGED <<enFlight, enSlots, enOrder, enStarts, enLog>>

EnrichQuiet ==
  /\ enKind = "array" /\ enItems = <<>>
  /\ enParallel = TRUE /\ enBatchSize = 1
  /\ enPc = "idle" /\ enI = 0 /\ enResults = <<>>
  /\ enFlight = {} /\ enSlots = EmptyMap /\ enOrder = <<>>
  /\ enValue = <<>> /\ enError = NoError
  /\ enStarts = <<>> /\ enLog = <<>> /\ enRejected = <<>>

EnrichInit ==
  /\ \/ enKind = "array" /\ enItems \in Arrays
     \/ enKind = "object" /\ enItems \in ObjectEntries
  /\ enParallel \in BOOLEAN
  /\ enBatchSize \in 1..MaxBatch
  /\ enPc = "idle" /\ enI = 0 /\ enResults = <<>>
  /\ enFlight = {} /\ enSlots = EmptyMap /\ enOrder = <<>>
  /\ enValue = <<>> /\ enError = NoError
  /\ enStarts = <<>> /\ enLog = <<>> /\ enRejected = <<>>

\* transform(data, config) up to its first await.
enrichTransform ==
  /\ enPc = "idle"
  /\ enrichLoop(0, <<>>)
  /\ UNCHANGED <<enKind, enItems, enParallel, enBatchSize, enRejected,
                 nonEnrichVars>>

\* A call of fn in flight resolves.
enrichFnResolves ==
  /\ \E p \in enFlight :
       /\ enFlight' = enFlight \ {p}
       /\ IF enPc = "awaiting"
            THEN /\ enSlots' = PutKey(enSlots, p,
                                      Fn(argOf(enKind, enParallel, enItems[p])))
                 /\ enOrder' = Append(enOrder, p)
            ELSE UNCHANGED <<enSlots, enOrder>>
  /\ UNCHANGED <<enKind, enItems, enParallel, enBatchSize, enPc, enI, enResults,
                 enValue, enError, enStarts, enLog, enRejected, nonEnrichVars>>

\* A call of fn in flight rejects: the pending await rejects with its reason,
\* which transform passes on.
enrichFnRejects ==
  /\ \E p \in enFlight, e \in Thrown :
       /\ enFlight' = enFlight \ {p}
       /\ enRejected' = Append(enRejected, e)
       /\ IF enPc = "awaiting"
            THEN enPc' = "thrown" /\ enError' = e
            ELSE UNCHANGED <<enPc, enError>>
  /\ UNCHANGED <<enKind, enItems, enParallel, enBatchSize, enI, enResults,
                 enSlots, enOrder, enValue, enStarts, enLog, nonEnrichVars>>

\* Every awaited call has resolved: the results are pushed and the loop goes on.
enrichAwaitResumes ==
  /\ enPc = "awaiting"
  /\ LET batch == awaitedCalls(enParallel, enI, enBatchSize, Len(enItems)) IN
       /\ DOMAIN enSlots = batch
       /\ enrichLoop(nextIndex(enParallel, enI, enBatchSize),
                     enResults \o promiseAll(enSlots, enOrder, enI + 1,
                                             enI + Cardinality(batch)))
  /\ UNCHANGED <<enKind, enItems, enParallel, enBatchSize, enRejected,
                 nonEnrichVars>>

\* ---------------------------------------------------------- StreamProcessor
\* What processor(batch) resolves with: batch.map(x => x * 2), or a single
\* value that is not an array (here the number of items of the batch).
RawArray(batch) == [isArray |-> TRUE,
                    elems |-> [k \in DOMAIN batch |-> batch[k] * 2],
                    value |-> 0]
RawSingle(batch) == [isArray |-> FALSE, elems |-> <<>>, value |-> Len(batch)]
RawResults(batch) == {RawArray(batch), RawSingle(batch)}
NoRaw == [isArray |-> FALSE, elems |-> <<>>, value |-> 0]

\* What processor(batch) rejects with.
StreamThrown == {[isError |-> TRUE, text |-> <<"Batch processing failed">>]}

\* onBatch is omitted, returns, or throws.
OnBatchKinds == {"none", "returns", "throws"}

\* Array.isArray(result) ? result : [result], and the two branches of push.
Normalize(raw) == IF raw.isArray THEN raw.elems ELSE <<raw.value>>

\* data.slice(i, i + batchSize)
Slice(data, i, bs) == SubSeq(data, i + 1, Min(i + bs, Len(data)))

\* i += batchSize
streamNextIndex_Skip(i, bs) == i + bs + 1

streamNextIndex(i, bs) == i + bs

\* One test of the loop condition of process at index i: processBatch is
\* called on the next slice, or results is returned.
streamLoop(i, results) ==
  /\ stI' = i
  /\ stResults' = results
  /\ IF i < Len(stData)
       THEN /\ stPc' = "awaiting"
            /\ stCalls' = Append(stCalls, Slice(stData, i, stBatchSize))
            /\ UNCHANGED stValue
       ELSE /\ stPc' = "returned"
            /\ stValue' = results
            /\ UNCHANGED stCalls

StreamQuiet ==
  /\ stEnabled = TRUE /\ stBatchSize = 1 /\ stData = <<>> /\ stOnBatch = "none"
  /\ stPc = "idle" /\ stI = 0 /\ stResults = <<>> /\ stValue = <<>>
  /\ stError = NoError /\ stAbandoned = {}
  /\ stCalls = <<>> /\ stOutcomes = <<>> /\ stOnBatchLog = <<>>

StreamInit ==
  /\ stEnabled \in BOOLEAN
  /\ stBatchSize \in 1..MaxBatch
  /\ stData \in Arrays
  /\ stOnBatch \in OnBatchKinds
  /\ stPc = "idle" /\ stI = 0 /\ stResults = <<>> /\ stValue = <<>>
  /\ stError = NoError /\ stAbandoned = {}
  /\ stCalls = <<>> /\ stOutcomes = <<>> /\ stOnBatchLog = <<>>

\* process(data, processor, onBatch) up to its first await.
streamProcess ==
  /\ stPc = "idle"
  /\ IF ~stEnabled
       THEN /\ stPc' = "awaitingAll"
            /\ stCalls' = Append(stCalls, stData)
            /\ UNCHANGED <<stI, stResults, stValue>>
       ELSE streamLoop(0, <<>>)
  /\ UNCHANGED <<stEnabled, stBatchSize, stData, stOnBatch, stError,
                 stAbandoned, stOutcomes, stOnBatchLog, nonStreamVars>>

\* Streaming disabled: processor(data) resolves, the result is normalized.
processorResolves ==
  /\ stPc = "awaitingAll"
  /\ \E raw \in RawResults(stData) :
       /\ stOutcomes' = Append(stOutcomes, [kind |-> "ok", raw |-> raw])
       /\ stValue' = Normalize(raw)
  /\ stPc' = "returned"
  /\ UNCHANGED <<stEnabled, stBatchSize, stData, stOnBatch, stI, stResults,
                 stError, stAbandoned, stCalls, stOnBatchLog, nonStreamVars>>

\* Streaming disabled: processor(data) rejects, and so does process.
processorRejects ==
  /\ stPc = "awaitingAll"
  /\ \E e \in StreamThrown :
       /\ stOutcomes' = Append(stOutcomes, [kind |-> "rejected", raw |-> NoRaw])
       /\ stError' = e
  /\ stPc' = "thrown"
  /\ UNCHANGED <<stEnabled, stBatchSize, stData, stOnBatch, stI, stResults,
                 stValue, stAbandoned, stCalls, stOnBatchLog, nonStreamVars>>

\* processBatch resolves before the timer: onBatch, then push, all inside the
\* try block, so that a throwing onBatch leaves through the catch.
batchResolves ==
  /\ stPc = "awaiting"
  /\ \E raw \in RawResults(stCalls[Len(stCalls)]) :
       /\ stOutcomes' = Append(stOutcomes, [kind |-> "ok", raw |-> raw])
       /\ stOnBatchLog' = IF stOnBatch = "none" THEN stOnBatchLog
                          ELSE Append(stOnBatchLog, raw)
       /\ streamLoop(streamNextIndex(stI, stBatchSize),
                     IF stOnBatch = "throws" THEN stResults
                     ELSE stResults \o Normalize(raw))
  /\ UNCHANGED <<stEnabled, stBatchSize, stData, stOnBatch, stError,
                 stAbandoned, nonStreamVars>>

\* processor(batch) rejects before the timer: logged, the loop goes on.
batchRejects ==
  /\ stPc = "awaiting"
  /\ \E e \in StreamThrown :
       stOutcomes' = Append(stOutcomes, [kind |-> "rejected", raw |-> NoRaw])
  /\ streamLoop(streamNextIndex(stI, stBatchSize), stResults)
  /\ UNCHANGED <<stEnabled, stBatchSize, stData, stOnBatch, stError,
                 stAbandoned, stOnBatchLog, nonStreamVars>>

\* The timer fires first: processBatch rejects, the processor keeps running.
batchTimesOut ==
  /\ stPc = "awaiting"
  /\ stOutcomes' = Append(stOutcomes, [kind |-> "timeout", raw |-> NoRaw])
  /\ stAbandoned' = stAbandoned \cup {Len(stCalls)}
  /\ streamLoop(streamNextIndex(stI, stBatchSize), stResults)
  /\ UNCHANGED <<stEnabled, stBatchSize, stData, stOnBatch, stError,
                 stOnBatchLog, nonStreamVars>>

\* As lateSettle, but the late result is pushed to results.
lateSettle_Appended(results, raw) == results \o Normalize(raw)

\* resolve(result) or reject(error) of the promise of processBatch after its
\* timer has rejected it: a settled promise stays as it is, and process
\* holds nothing else of the call.
lateSettle(results, raw) == results

\* An abandoned processor settles: resolve / reject of a settled promise.
abandonedSettles ==
  /\ \E k \in stAbandoned :
       /\ stAbandoned' = stAbandoned \ {k}
       /\ \E raw \in RawResults(stCalls[k]) :
            stResults' = lateSettle(stResults, raw)
  /\ UNCHANGED <<stEnabled, stBatchSize, stData, stOnBatch, stPc, stI,
                 stValue, stError, stCalls, stOutcomes,
                 stOnBatchLog, nonStreamVars>>

\* ------------------------------------------------------------ JoinTransformer
\* A record is a function from field names to strings.  Left records carry
\* name, right records carry age, both carry tag, and the key field id may be
\* missing.
JoinKey == "id"
KeyValues == {"1", "2"}
LeftRecords ==
  [{"name", "tag"} -> {"John", "Jane", "L"}] \cup
  [{"id", "name", "tag"} -> KeyValues \cup {"John", "Jane", "L"}]
RightRecords ==
  [{"age", "tag"} -> {"30", "25", "R"}] \cup
  [{"id", "age", "tag"} -> KeyValues \cup {"30", "25", "R"}]
WellFormed(r) ==
  /\ r["tag"] \in {"L", "R"}
  /\ "id" \in DOMAIN r => r["id"] \in KeyValues
  /\ "name" \in DOMAIN r => r["name"] \in {"John", "Jane"} /\ r["tag"] = "L"
  /\ "age" \in DOMAIN r => r["age"] \in {"30", "25"} /\ r["tag"] = "R"
LeftInputs ==
  UNION {[1..n -> {r \in LeftRecords : WellFormed(r)}] : n \in 0..MaxRows}
RightInputs ==
  UNION {[1..n -> {r \in RightRecords : WellFormed(r)}] : n \in 0..MaxRows}

\* path.split('.').reduce(...) for a path of one segment: the field, or
\* undefined when the record has no such field.
getNestedValue(obj, path) == IF path \in DOMAIN obj THEN obj[path] ELSE Undefined

\* A Map: its keys in insertion order and the value of each key.  set of a key
\* already present replaces the value and keeps the position of the key.
EmptyIndex == [order |-> <<>>, at |-> EmptyMap]
mapSet(m, k, v) ==
  [order |-> IF k \in DOMAIN m.at THEN m.order ELSE Append(m.order, k),
   at |-> PutKey(m.at, k, v)]

\* Map.get: <<item>> when the key is present, <<>> for undefined.
mapGet(m, k) == IF k \in DOMAIN m.at THEN <<m.at[k]>> ELSE <<>>

\* data.forEach(item => { if (keyValue !== undefined) map.set(keyValue, item) })
RECURSIVE buildMap(_, _, _)
buildMap(data, key, m) ==
  IF data = <<>> THEN m
  ELSE LET keyValue == getNestedValue(Head(data), key) IN
       buildMap(Tail(data), key,
                IF keyValue # Undefined THEN mapSet(m, keyValue, Head(data))
                ELSE m)

\* { ...item } of an item that may be undefined.
Spread(opt) == IF opt = <<>> THEN EmptyMap ELSE opt[1]

\* { ...a, ...b }: the fields of b over the fields of a.
Merge(a, b) ==
  [f \in DOMAIN a \cup DOMAIN b |-> IF f \in DOMAIN b THEN b[f] ELSE a[f]]

\* (left, right) => ({ ...left, ...right, joined: true })
customJoinFn(left, right) ==
  Merge(Merge(Spread(left), Spread(right)), [joined |-> "true"])

\* leftData.map(leftItem => ...) over the index of the right records.
nestedJoin_Inner(leftData, rightData, key, joinFn) ==
  LET rightMap == buildMap(rightData, key, EmptyIndex)
      found == SelectSeq(leftData,
                 LAMBDA l : mapGet(rightMap, getNestedValue(l, key)) # <<>>)
  IN [i \in 1..Len(found) |->
        Merge(found[i], mapGet(rightMap, getNestedValue(found[i], key))[1])]

nestedJoin(leftData, rightData, key, joinFn) ==
  LET rightMap == buildMap(rightData, key, EmptyIndex) IN
  [i \in 1..Len(leftData) |->
     LET leftItem == leftData[i]
         keyValue == getNestedValue(leftItem, key)
         rightItem == mapGet(rightMap, keyValue)
     IN IF joinFn THEN customJoinFn(<<leftItem>>, rightItem)
        ELSE IF rightItem # <<>> THEN Merge(leftItem, Spread(rightItem))
        ELSE leftItem]

\* new Set([...leftMap.keys(), ...rightMap.keys()]), in insertion order.
allKeys_NoDedupe(leftMap, rightMap) == leftMap.order \o rightMap.order

allKeys_RightFirst(leftMap, rightMap) ==
  rightMap.order \o SelectSeq(leftMap.order, LAMBDA k : k \notin DOMAIN rightMap.at)

allKeys(leftMap, rightMap) ==
  leftMap.order \o SelectSeq(rightMap.order, LAMBDA k : k \notin DOMAIN leftMap.at)

\* allKeys.forEach(keyValue => result.push(...)).
parallelJoin(leftData, rightData, key, joinFn) ==
  LET leftMap == buildMap(leftData, key, EmptyIndex)
      rightMap == buildMap(rightData, key, EmptyIndex)
      keys == allKeys(leftMap, rightMap)
  IN [i \in 1..Len(keys) |->
        LET leftItem == mapGet(leftMap, keys[i])
            rightItem == mapGet(rightMap, keys[i])
        IN IF joinFn THEN customJoinFn(leftItem, rightItem)
           ELSE Merge(Spread(leftItem), Spread(rightItem))]

\* An operand is an array, another truthy value (an object) or a falsy one.
OperandKinds == {"array", "object", "null"}

\* Array.isArray
isArray(kind) == kind = "array"

\* type === 'data' && joinData
hasJoinData(kind) == kind # "null"

\* !Array.isArray(leftData) || !Array.isArray(rightData)
arraysRequired_LeftOnly(leftKind, rightKind) == ~isArray(leftKind)

arraysRequired(leftKind, rightKind) == ~isArray(leftKind) \/ ~isArray(rightKind)

InvalidJoinConfiguration ==
  [isError |-> TRUE, text |-> <<"Invalid join configuration">>]
BothDatasetsMustBeArrays ==
  [isError |-> TRUE, text |-> <<"Both datasets must be arrays for joining">>]

JoinQuiet ==
  /\ jnLeft = <<>> /\ jnRight = <<>> /\ jnMode = "nested" /\ jnJoinFn = FALSE
  /\ jnLeftKind = "array" /\ jnRightKind = "array"
  /\ jnPc = "idle" /\ jnOut = <<>> /\ jnError = NoError /\ jnCombined = 0

JoinInit ==
  /\ jnLeftKind \in OperandKinds
  /\ jnRightKind \in OperandKinds
  /\ jnLeft \in IF isArray(jnLeftKind) THEN LeftInputs ELSE {<<>>}
  /\ jnRight \in IF isArray(jnRightKind) THEN RightInputs ELSE {<<>>}
  /\ jnMode \in {"nested", "parallel"}
  /\ jnJoinFn \in BOOLEAN
  /\ jnPc = "idle" /\ jnOut = <<>> /\ jnError = NoError /\ jnCombined = 0

\* transform(data, { key, mode, type: 'data', data: rightData, joinFn }).
\* joinFn is called once per record pushed.
joinTransform ==
  /\ jnPc = "idle"
  /\ IF ~hasJoinData(jnRightKind)
       THEN /\ jnPc' = "thrown"
            /\ jnError' = InvalidJoinConfiguration
            /\ UNCHANGED <<jnOut, jnCombined>>
       ELSE IF arraysRequired(jnLeftKind, jnRightKind)
       THEN /\ jnPc' = "thrown"
            /\ jnError' = BothDatasetsMustBeArrays
            /\ UNCHANGED <<jnOut, jnCombined>>
       ELSE /\ jnOut' = IF jnMode = "nested"
                          THEN nestedJoin(jnLeft, jnRight, JoinKey, jnJoinFn)
                          ELSE parallelJoin(jnLeft, jnRight, JoinKey, jnJoinFn)
            /\ jnCombined' = IF jnJoinFn THEN Len(jnOut') ELSE 0
            /\ jnPc' = "returned"
            /\ UNCHANGED jnError
  /\ UNCHANGED <<jnLeft, jnRight, jnMode, jnJoinFn, jnLeftKind, jnRightKind,
                 nonJoinVars>>

\* ------------------------------------------------------------------- Cache
\* private defaultTTL: number = 300000
DefaultTTL == 300000

CacheKeys == {"k1", "k2"}
CacheValues == {"v1", "v2", Null}

\* An optional ttl argument: <<>> when omitted, <<t>> when given.
TtlArgs == {<<>>} \cup {<<t>> : t \in 0..MaxTtl}

\* ttl || this.defaultTTL, and if (defaultTTL) in the constructor: an omitted
\* argument and 0 are both falsy.
orDefault(arg, default) == IF arg = <<>> \/ arg[1] = 0 THEN default ELSE arg[1]

\* now - entry.timestamp > entry.ttl
expired_Inclusive(entry, t) == t - entry.timestamp >= entry.ttl

expired(entry, t) == t - entry.timestamp > entry.ttl

\* The storage after the look-up of get and has: an expired entry is deleted.
lookup_KeepsExpired(storage, key, t) == storage

lookup(storage, key, t) ==
  IF key \in DOMAIN storage /\ expired(storage[key], t)
    THEN RemoveKey(storage, key)
    ELSE storage

\* What get returns.
getResult(storage, key, t) ==
  IF key \notin DOMAIN storage THEN Null
  ELSE IF expired(storage[key], t) THEN Null
  ELSE storage[key].data

\* What has returns.
hasResult(storage, key, t) ==
  IF key \notin DOMAIN storage THEN FALSE
  ELSE IF expired(storage[key], t) THEN FALSE
  ELSE TRUE

\* The keys cleanExpired deletes.
expiredKeys(storage, t) == {k \in DOMAIN storage : expired(storage[k], t)}

\* The last call: its name, key and arguments, the time of the call, and the
\* value returned (data for get, flag for has and delete, count for size and
\* cleanExpired).
CacheCall(op, key, t, data, ttl, flag, count) ==
  [op |-> op, key |-> key, at |-> t, data |-> data, ttl |-> ttl,
   flag |-> flag, count |-> count]
NoCacheCall == CacheCall("none", "", 0, Null, <<>>, FALSE, 0)

CacheQuiet ==
  /\ chStorage = EmptyMap /\ chDefaultTTL = DefaultTTL /\ chNow = 0
  /\ chRet = NoCacheCall

\* new Cache(defaultTTL?)
CacheInit ==
  /\ chStorage = EmptyMap
  /\ \E arg \in TtlArgs : chDefaultTTL = orDefault(arg, DefaultTTL)
  /\ chNow = 0
  /\ chRet = NoCacheCall

cacheSet ==
  /\ \E key \in CacheKeys, data \in CacheValues, ttl \in TtlArgs :
       LET entry == [data |-> data, timestamp |-> chNow,
                     ttl |-> orDefault(ttl, chDefaultTTL)] IN
       /\ chStorage' = PutKey(chStorage, key, entry)
       /\ chRet' = CacheCall("set", key, chNow, data, ttl, FALSE, 0)
  /\ UNCHANGED <<chDefaultTTL, chNow, nonCacheVars>>

cacheGet ==
  /\ \E key \in CacheKeys :
       /\ chStorage' = lookup(chStorage, key, chNow)
       /\ chRet' = CacheCall("get", key, chNow,
                             getResult(chStorage, key, chNow), <<>>, FALSE, 0)
  /\ UNCHANGED <<chDefaultTTL, chNow, nonCacheVars>>

cacheHas ==
  /\ \E key \in CacheKeys :
       /\ chStorage' = lookup(chStorage, key, chNow)
       /\ chRet' = CacheCall("has", key, chNow, Null, <<>>,
                             hasResult(chStorage, key, chNow), 0)
  /\ UNCHANGED <<chDefaultTTL, chNow, nonCacheVars>>

cacheDelete ==
  /\ \E key \in CacheKeys :
       /\ chStorage' = RemoveKey(chStorage, key)
       /\ chRet' = CacheCall("delete", key, chNow, Null, <<>>,
                             key \in DOMAIN chStorage, 0)
  /\ UNCHANGED <<chDefaultTTL, chNow, nonCacheVars>>

cacheClear ==
  /\ chStorage' = EmptyMap
  /\ chRet' = CacheCall("clear", "", chNow, Null, <<>>, FALSE, 0)
  /\ UNCHANGED <<chDefaultTTL, chNow, nonCacheVars>>

cacheSize ==
  /\ chRet' = CacheCall("size", "", chNow, Null, <<>>, FALSE,
                        Cardinality(DOMAIN chStorage))
  /\ UNCHANGED <<chStorage, chDefaultTTL, chNow, nonCacheVars>>

cleanExpired ==
  /\ chStorage' = [k \in DOMAIN chStorage \ expiredKeys(chStorage, chNow) |->
                     chStorage[k]]
  /\ chRet' = CacheCall("cleanExpired", "", chNow, Null, <<>>, FALSE,
                        Cardinality(expiredKeys(chStorage, chNow)))
  /\ UNCHANGED <<chDefaultTTL, chNow, nonCacheVars>>

\* Date.now() advances.
cacheTick ==
  /\ chNow < MaxTime
  /\ chNow' = chNow + 1
  /\ UNCHANGED <<chStorage, chDefaultTTL, chRet, nonCacheVars>>

\* ----------------------------------------------------------- PluginManager
\* The plugins given to the manager, by name.  A capability is identified by
\* the plugin that exposes it and by its name; two plugins expose an extractor
\* named "x" and two a transformer named "t".
PluginNames == {"A", "B", "C"}
\* A name under which no plugin is ever registered.
UnknownName == "Z"

getExtractors(p) == CASE p = "A" -> <<"x">>
                      [] p = "B" -> <<"x", "y">>
                      [] p = "C" -> <<>>
getTransformers(p) == CASE p = "A" -> <<"t">>
                        [] p = "B" -> <<>>
                        [] p = "C" -> <<"t">>
getLoaders(p) == CASE p = "A" -> <<"l">>
                   [] p = "B" -> <<>>
                   [] p = "C" -> <<>>

\* The callers of the manager: c2 calls only while a call of c1 is suspended.
Callers == {"c1", "c2"}

ElementsOf(s) == {s[i] : i \in DOMAIN s}

\* this.plugins.has(name), and the test of this.plugins.get(name)
hasPlugin_Never(plugins, name) == FALSE

hasPlugin(plugins, name) == name \in ElementsOf(plugins)

\* this.plugins.set(name, plugin): a new key goes last, a key already present
\* keeps its place.
pluginsSet(plugins, name) ==
  IF name \in ElementsOf(plugins) THEN plugins ELSE Append(plugins, name)

\* this.plugins.delete(name)
pluginsDelete(plugins, name) == SelectSeq(plugins, LAMBDA x : x # name)

\* Array.from(this.plugins.keys()): the names in insertion order.
keys_Reversed(plugins) ==
  [i \in 1..Len(plugins) |-> plugins[Len(plugins) + 1 - i]]

keys(plugins) == plugins

\* list.forEach(c => registry.set(c.name, c)) for the components of plugin p.
registerComponents(registry, list, p) ==
  [n \in DOMAIN registry \cup ElementsOf(list) |->
     IF n \in ElementsOf(list) THEN p ELSE registry[n]]

\* list.forEach(c => registry.delete(c.name))
removeComponents(registry, list) ==
  [n \in DOMAIN registry \ ElementsOf(list) |-> registry[n]]

\* String(error) inside a template string.
StringOf(e) == IF e.isError THEN <<"Error: ">> \o e.text ELSE e.text

AlreadyRegistered(name) ==
  [isError |-> TRUE, text |-> <<"Plugin '", name, "' is already registered">>]
NotRegistered(name) ==
  [isError |-> TRUE, text |-> <<"Plugin '", name, "' is not registered">>]
InitializeFailed(name, e) ==
  [isError |-> TRUE,
   text |-> <<"Failed to initialize plugin '", name, "': ">> \o StringOf(e)]
CleanupFailed(name, e) ==
  [isError |-> TRUE,
   text |-> <<"Failed to cleanup plugin '", name, "': ">> \o StringOf(e)]

\* A call in flight: the method, its argument, the hook it is suspended in,
\* and for clearAll the names to unregister, the position reached and the
\* plugins whose cleanup hook the call has invoked.
PluginCall(op, arg, at, names, idx, cleaned) ==
  [op |-> op, arg |-> arg, pc |-> at, names |-> names, idx |-> idx,
   cleaned |-> cleaned]
NoPluginCall == PluginCall("none", "", "idle", <<>>, 0, <<>>)

\* A settled call: resolved (ok) or rejected with error; n tells a call from
\* the one before it.
PluginOutcome(op, arg, ok, error, names, cleaned, n) ==
  [op |-> op, arg |-> arg, ok |-> ok, error |-> error, names |-> names,
   cleaned |-> cleaned, n |-> n]
NoPluginOutcome == PluginOutcome("none", "", TRUE, NoError, <<>>, <<>>, 0)

PluginQuiet ==
  /\ pmPlugins = <<>>
  /\ pmExtractors = EmptyMap /\ pmTransformers = EmptyMap
  /\ pmLoaders = EmptyMap
  /\ pmCalls = [c \in Callers |-> NoPluginCall]
  /\ pmOutcome = [c \in Callers |-> NoPluginOutcome]
  /\ pmOverlap = FALSE

\* new PluginManager(), used by a caller that awaits each call.
PluginInit == PluginQuiet

CanStart(c) ==
  /\ pmCalls[c].pc = "idle"
  /\ \/ c = "c1" /\ pmCalls["c2"].pc = "idle"
     \/ c = "c2" /\ pmOverlap /\ pmCalls["c1"].pc # "idle"

\* The call of c settles.
Settle(c, op, arg, ok, error, names, cleaned) ==
  /\ pmCalls' = [pmCalls EXCEPT ![c] = NoPluginCall]
  /\ pmOutcome' = [pmOutcome EXCEPT ![c] =
                     PluginOutcome(op, arg, ok, error, names, cleaned,
                                   1 - pmOutcome[c].n)]

\* The call of c suspends in a hook.
Suspend(c, call) ==
  /\ pmCalls' = [pmCalls EXCEPT ![c] = call]
  /\ UNCHANGED pmOutcome

registerPlugin ==
  \E c \in Callers, p \in PluginNames :
    /\ CanStart(c)
    /\ IF hasPlugin(pmPlugins, p)
         THEN Settle(c, "registerPlugin", p, FALSE, AlreadyRegistered(p),
                     <<>>, <<>>)
         ELSE Suspend(c, PluginCall("registerPlugin", p, "initialize",
                                    <<>>, 0, <<>>))
    /\ UNCHANGED <<pmPlugins, pmExtractors, pmTransformers, pmLoaders,
                   pmOverlap, nonPluginVars>>

initializeResolves ==
  \E c \in Callers :
    /\ pmCalls[c].pc = "initialize"
    /\ LET p == pmCalls[c].arg IN
       /\ pmPlugins' = pluginsSet(pmPlugins, p)
       /\ pmExtractors' = registerComponents(pmExtractors, getExtractors(p), p)
       /\ pmTransformers' =
            registerComponents(pmTransformers, getTransformers(p), p)
       /\ pmLoaders' = registerComponents(pmLoaders, getLoaders(p), p)
       /\ Settle(c, "registerPlugin", p, TRUE, NoError, <<>>, <<>>)
    /\ UNCHANGED <<pmOverlap, nonPluginVars>>

initializeRejects ==
  \E c \in Callers, e \in Thrown :
    /\ pmCalls[c].pc = "initialize"
    /\ Settle(c, "registerPlugin", pmCalls[c].arg, FALSE,
              InitializeFailed(pmCalls[c].arg, e), <<>>, <<>>)
    /\ UNCHANGED <<pmPlugins, pmExtractors, pmTransformers, pmLoaders,
                   pmOverlap, nonPluginVars>>

unregisterPlugin ==
  \E c \in Callers, name \in PluginNames \cup {UnknownName} :
    /\ CanStart(c)
    /\ IF ~hasPlugin(pmPlugins, name)
         THEN Settle(c, "unregisterPlugin", name, FALSE, NotRegistered(name),
                     <<>>, <<>>)
         ELSE Suspend(c, PluginCall("unregisterPlugin", name, "cleanup",
                                    <<>>, 0, <<>>))
    /\ UNCHANGED <<pmPlugins, pmExtractors, pmTransformers, pmLoaders,
                   pmOverlap, nonPluginVars>>

\* The plugin whose cleanup hook the call is suspended in.
cleaning(call) ==
  IF call.op = "clearAll" THEN call.names[call.idx] ELSE call.arg

\* clearAll goes on with the name at position idx of its list, or resolves
\* after the last one; plugins is the map at that moment.
clearAllLoop(c, call, idx, plugins) ==
  IF idx > Len(call.names)
    THEN Settle(c, "clearAll", "", TRUE, NoError, call.names, call.cleaned)
  ELSE IF ~hasPlugin(plugins, call.names[idx])
    THEN Settle(c, "clearAll", "", FALSE, NotRegistered(call.names[idx]),
                call.names, call.cleaned)
  ELSE Suspend(c, PluginCall("clearAll", "", "cleanup", call.names, idx,
                             Append(call.cleaned, call.names[idx])))

cleanupResolves ==
  \E c \in Callers :
    /\ pmCalls[c].pc = "cleanup"
    /\ LET call == pmCalls[c]
           p == cleaning(call)
           plugins == pluginsDelete(pmPlugins, p)
       IN
       /\ pmExtractors' = removeComponents(pmExtractors, getExtractors(p))
       /\ pmTransformers' =
            removeComponents(pmTransformers, getTransformers(p))
       /\ pmLoaders' = removeComponents(pmLoaders, getLoaders(p))
       /\ pmPlugins' = plugins
       /\ IF call.op = "clearAll"
            THEN clearAllLoop(c, call, call.idx + 1, plugins)
            ELSE Settle(c, "unregisterPlugin", p, TRUE, NoError, <<>>, <<>>)
    /\ UNCHANGED <<pmOverlap, nonPluginVars>>

cleanupRejects ==
  \E c \in Callers, e \in Thrown :
    /\ pmCalls[c].pc = "cleanup"
    /\ LET call == pmCalls[c] IN
       Settle(c, call.op, call.arg, FALSE, CleanupFailed(cleaning(call), e),
              call.names, call.cleaned)
    /\ UNCHANGED <<pmPlugins, pmExtractors, pmTransformers, pmLoaders,
                   pmOverlap, nonPluginVars>>

clearAll ==
  \E c \in Callers :
    /\ CanStart(c)
    /\ clearAllLoop(c, PluginCall("clearAll", "", "idle", keys(pmPlugins),
                                  0, <<>>),
                    1, pmPlugins)
    /\ UNCHANGED <<pmPlugins, pmExtractors, pmTransformers, pmLoaders,
                   pmOverlap, nonPluginVars>>

\* ------------------------------------------ ErrorRecovery: lists of operations
\* The configurations of the batch calls: the delays play no part in them.
BatchConfigs ==
  {c \in RecoveryConfigs :
     c.retryDelay = 1 /\ c.backoffMultiplier = 1 /\ c.maxRetryDelay = 1}

\* context ? `${context}[${i}]` : `function[${i}]`, i counted from 0.
labelOf(ctx, i) ==
  IF Truthy(ctx) THEN <<ctx, "[", ToString(i - 1), "]">>
                 ELSE <<"function[", ToString(i - 1), "]">>

\* The error thrown after the loop of executeWithRecovery, for a label.
labelledError(cfg, label, last) ==
  [isError |-> TRUE,
   text |-> <<"Operation failed after ", ToString(cfg.maxRetries), " retries">>
            \o <<" for ">> \o label \o <<": ">> \o Message(last)]

\* The call of executeWithRecovery for one operation of the list: not made
\* yet (waiting), suspended in fn (calling) or in sleep (sleeping), resolved
\* with value (returned) or rejected with error (thrown).
Operation(at, n, last, value, error) ==
  [pc |-> at, attempt |-> n, lastError |-> last, value |-> value,
   error |-> error]
NotStarted == Operation("waiting", 0, NoError, Null, NoError)

\* executeWithRecovery(functions[i], label) up to the first call of fn.
beginOperation(cfg) ==
  IF ~cfg.enabled \/ loopContinues(cfg, 0)
    THEN Operation("calling", 0, NoError, Null, NoError)
    ELSE Operation("thrown", 0, NoError, Null, TypeErrorThrown)

Settled(op) == op.pc \in {"returned", "thrown"}

\* The operation whose call was the first to settle (0: none yet), given that
\* the call for operation i has just moved.
firstSettled(first, ops, i) ==
  IF first = 0 /\ Settled(ops[i]) THEN i ELSE first

\* results.push(result)
onSuccess(results, v) == Append(results, v)

\* As onFailure, but nothing is pushed for a failed operation.
onFailure_Skip(results) == results

\* results.push(null as any)
onFailure(results) == Append(results, Null)

MultiQuiet ==
  /\ muConfig = [enabled |-> TRUE, maxRetries |-> 0, retryDelay |-> 1,
                 backoffMultiplier |-> 1, maxRetryDelay |-> 1]
  /\ muLen = 0 /\ muContext = Undefined /\ muPc = "idle" /\ muI = 0
  /\ muOps = <<>> /\ muResults = <<>> /\ muErrors = <<>> /\ muFirst = 0

\* new ErrorRecovery(config) and a list of 0..MaxOps functions.
MultiInit ==
  /\ muConfig \in BatchConfigs
  /\ muLen \in 0..MaxOps
  /\ muContext \in Contexts
  /\ muPc = "idle" /\ muI = 0
  /\ muOps = [i \in 1..muLen |-> NotStarted]
  /\ muResults = <<>> /\ muErrors = <<>> /\ muFirst = 0

\* for (let i = 0; i < functions.length; i++): the call for operation i is
\* made, or the list is over and results is returned.
multiLoop(i) ==
  IF i <= muLen
    THEN /\ muOps' = [muOps EXCEPT ![i] = beginOperation(muConfig)]
         /\ muI' = i
         /\ muPc' = "running"
    ELSE /\ muPc' = "returned"
         /\ muI' = i
         /\ UNCHANGED muOps

\* executeMultipleWithRecovery(functions, context) up to its first await.
executeMultipleWithRecovery ==
  /\ muPc = "idle"
  /\ multiLoop(1)
  /\ UNCHANGED <<muConfig, muLen, muContext, muResults, muErrors,
                 muFirst, nonMultiVars>>

\* await fn() of operation i resolves with v: the call returns v, and its
\* locals attempt and lastError are gone.
operationFnResolves ==
  \E i \in 1..muLen, v \in OpValues :
    /\ muOps[i].pc = "calling"
    /\ muOps' = [muOps EXCEPT ![i] =
                   Operation("returned", 0, NoError, v, NoError)]
    /\ muFirst' = firstSettled(muFirst, muOps', i)
    /\ UNCHANGED <<muConfig, muLen, muContext, muPc, muI, muResults,
                   muErrors, nonMultiVars>>

\* await fn() of operation i rejects with e.
operationFnRejects ==
  \E i \in 1..muLen, e \in Thrown :
    /\ muOps[i].pc = "calling"
    /\ LET op == muOps[i]
           last == recordError(op.lastError, e)
           n == nextAttempt(op.attempt)
       IN
       muOps' = [muOps EXCEPT ![i] =
         IF ~muConfig.enabled
           THEN Operation("thrown", op.attempt, op.lastError, Null, e)
         ELSE IF retriesExhausted(muConfig, n)
           THEN Operation("thrown", n, last, Null,
                          labelledError(muConfig, labelOf(muContext, i), last))
         ELSE Operation("sleeping", n, last, Null, NoError)]
    /\ muFirst' = firstSettled(muFirst, muOps', i)
    /\ UNCHANGED <<muConfig, muLen, muContext, muPc, muI, muResults,
                   muErrors, nonMultiVars>>

\* The sleep of operation i is over: fn is called again.
operationSleepElapsed ==
  \E i \in 1..muLen :
    /\ muOps[i].pc = "sleeping"
    /\ LET op == muOps[i] IN
       muOps' = [muOps EXCEPT ![i] =
         IF loopContinues(muConfig, op.attempt)
           THEN Operation("calling", op.attempt, op.lastError, Null, NoError)
           ELSE Operation("thrown", op.attempt, op.lastError, Null,
                          labelledError(muConfig, labelOf(muContext, i),
                                        op.lastError))]
    /\ muFirst' = firstSettled(muFirst, muOps', i)
    /\ UNCHANGED <<muConfig, muLen, muContext, muPc, muI, muResults,
                   muErrors, nonMultiVars>>

\* await this.executeWithRecovery(functions[i], ...) is over: the value or
\* the placeholder is pushed and the loop goes on.
operationAwaited ==
  /\ muPc = "running"
  /\ Settled(muOps[muI])
  /\ IF muOps[muI].pc = "returned"
       THEN /\ muResults' = onSuccess(muResults, muOps[muI].value)
            /\ UNCHANGED muErrors
       ELSE /\ muErrors' = Append(muErrors, ToError(muOps[muI].error))
            /\ muResults' = onFailure(muResults)
  /\ multiLoop(muI + 1)
  /\ UNCHANGED <<muConfig, muLen, muContext, muFirst, nonMultiVars>>

\* .catch(error => null): what the promise of one operation resolves with.
recovered(op) == IF op.pc = "returned" THEN op.value ELSE Null

\* As promiseAllRecovered, but the values are listed last operation first.
promiseAllRecovered_Reversed(ops) ==
  [i \in 1..Len(ops) |-> recovered(ops[Len(ops) + 1 - i])]

\* Promise.all(promises): the values in the order of the promises.
promiseAllRecovered(ops) == [i \in 1..Len(ops) |-> recovered(ops[i])]

\* executeParallelWithRecovery(functions, context) up to await Promise.all:
\* functions.map makes the call of executeWithRecovery for every operation.
executeParallelWithRecovery ==
  /\ muPc = "idle"
  /\ muOps' = [i \in 1..muLen |-> beginOperation(muConfig)]
  /\ muPc' = "awaitingAll"
  /\ UNCHANGED <<muConfig, muLen, muContext, muI, muResults, muErrors,
                 muFirst, nonMultiVars>>

\* Every promise is settled: await Promise.all(promises) returns.
parallelReturns ==
  /\ muPc = "awaitingAll"
  /\ \A i \in 1..muLen : Settled(muOps[i])
  /\ muResults' = promiseAllRecovered(muOps)
  /\ muPc' = "returned"
  /\ UNCHANGED <<muConfig, muLen, muContext, muI, muOps, muErrors, muFirst,
                 nonMultiVars>>

\* ------------------------------------------- ETLPipeline: runs in flight
\* One pipeline with caching in use, one registered extractor and two extract
\* steps with the same name and config, run by a caller that does not await a
\* run before it calls the pipeline again.
OverlapSteps ==
  LET s == [type |-> "extract", name |-> NameOf("extract"), config |-> <<>>,
            optional |-> FALSE]
  IN <<s, s>>

RunIds == {"r1", "r2"}
OverlapValues == {"d1", "d2"}
OverlapConfigs == [enableCache : BOOLEAN, cacheDuration : 0..MaxCacheDuration]

\* The locals of one call of run(): where it is, the step it is at, the value
\* carried, and two ghosts: this.config as it was when run() was called and
\* the value of this.config at each read the call has made.
RunOf(at, i, data, snapshot, reads) ==
  [pc |-> at, stepIdx |-> i, currentData |-> data, snapshot |-> snapshot,
   reads |-> reads]

InFlight(r) == ovRuns[r].pc \in {"loop", "awaiting"}

\* One call of extractor.extract: the run and step it was made for, when it
\* was made and how and when it settled.
Invocation(r, i, at, state, settledAt) ==
  [run |-> r, idx |-> i, at |-> at, state |-> state, settledAt |-> settledAt]

settle(log, r, i, state, t) ==
  [k \in 1..Len(log) |->
     IF log[k].run = r /\ log[k].idx = i
       THEN Invocation(r, i, log[k].at, state, t)
       ELSE log[k]]

OverlapQuiet ==
  /\ ovConfig = [enableCache |-> TRUE, cacheDuration |-> MaxCacheDuration]
  /\ ovCache = EmptyMap /\ ovTs = EmptyMap /\ ovNow = 1
  /\ ovRuns = [r \in RunIds |-> RunOf("idle", 0, Null, ovConfig, <<>>)]
  /\ ovInvoked = <<>>

OverlapInit ==
  /\ ovConfig \in OverlapConfigs
  /\ ovCache = EmptyMap /\ ovTs = EmptyMap /\ ovNow = 1
  /\ ovRuns = [r \in RunIds |-> RunOf("idle", 0, Null, ovConfig, <<>>)]
  /\ ovInvoked = <<>>

\* executeExtractStep(step) of run r up to its await or its return: the
\* registered extractor is found, this.config.enableCache is read, the cache
\* is consulted with the cacheDuration of this.config, and on a miss the
\* extractor is called.
overlapExecuteExtractStep(r, i, snapshot, reads) ==
  LET step == OverlapSteps[i]
      key == generateCacheKey(step)
      got == getCachedData(key, ovCache, ovTs, ovNow, ovConfig.cacheDuration)
      seen == Append(reads, ovConfig)
  IN
  IF ovConfig.enableCache
    THEN /\ ovCache' = got.cache
         /\ ovTs' = got.ts
         /\ IF Truthy(got.data)
              THEN /\ ovRuns' = [ovRuns EXCEPT ![r] =
                                   RunOf("loop", i + 1, got.data, snapshot, seen)]
                   /\ UNCHANGED ovInvoked
              ELSE /\ ovRuns' = [ovRuns EXCEPT ![r] =
                                   RunOf("awaiting", i, ovRuns[r].currentData,
                                         snapshot, seen)]
                   /\ ovInvoked' = Append(ovInvoked,
                                     Invocation(r, i, ovNow, "pending", 0))
    ELSE /\ ovRuns' = [ovRuns EXCEPT ![r] =
                         RunOf("awaiting", i, ovRuns[r].currentData, snapshot,
                               seen)]
         /\ ovInvoked' = Append(ovInvoked, Invocation(r, i, ovNow, "pending", 0))
         /\ UNCHANGED <<ovCache, ovTs>>

\* run() is called while another call of run() may be suspended: it goes on
\* to the await of its first step without giving up control.
overlapRun ==
  \E r \in RunIds :
    /\ ovRuns[r].pc = "idle"
    /\ overlapExecuteExtractStep(r, 1, ovConfig, <<>>)
    /\ UNCHANGED <<ovConfig, ovNow, nonOverlapVars>>

\* run() is called by a caller that awaits each run before the next.
awaitedRun ==
  \E r \in RunIds :
    /\ ovRuns[r].pc = "idle"
    /\ \A q \in RunIds : ~InFlight(q)
    /\ overlapExecuteExtractStep(r, 1, ovConfig, <<>>)
    /\ UNCHANGED <<ovConfig, ovNow, nonOverlapVars>>

\* The loop of run r goes on after a step: the next step, or the result.
overlapLoop ==
  \E r \in RunIds :
    /\ ovRuns[r].pc = "loop"
    /\ IF ovRuns[r].stepIdx <= Len(OverlapSteps)
         THEN overlapExecuteExtractStep(r, ovRuns[r].stepIdx,
                                        ovRuns[r].snapshot, ovRuns[r].reads)
         ELSE /\ ovRuns' = [ovRuns EXCEPT ![r].pc = "done"]
              /\ UNCHANGED <<ovCache, ovTs, ovInvoked>>
    /\ UNCHANGED <<ovConfig, ovNow, nonOverlapVars>>

\* The extractor awaited by run r resolves with v: this.config.enableCache is
\* read again and the value is stored when it is set.
overlapExtractorResolves ==
  \E r \in RunIds, v \in OverlapValues :
    LET cur == ovRuns[r]
        key == generateCacheKey(OverlapSteps[cur.stepIdx])
    IN
    /\ cur.pc = "awaiting"
    /\ IF ovConfig.enableCache
         THEN /\ ovCache' = PutKey(ovCache, key, v)
              /\ ovTs' = PutKey(ovTs, key, ovNow)
         ELSE UNCHANGED <<ovCache, ovTs>>
    /\ ovRuns' = [ovRuns EXCEPT ![r] =
                    RunOf("loop", cur.stepIdx + 1, v, cur.snapshot,
                          Append(cur.reads, ovConfig))]
    /\ ovInvoked' = settle(ovInvoked, r, cur.stepIdx, "resolved", ovNow)
    /\ UNCHANGED <<ovConfig, ovNow, nonOverlapVars>>

\* The extractor awaited by run r rejects: the step is not optional and the
\* run returns its failure result.
overlapExtractorRejects ==
  \E r \in RunIds :
    /\ ovRuns[r].pc = "awaiting"
    /\ ovRuns' = [ovRuns EXCEPT ![r].pc = "failed"]
    /\ ovInvoked' = settle(ovInvoked, r, ovRuns[r].stepIdx, "rejected", ovNow)
    /\ UNCHANGED <<ovConfig, ovCache, ovTs, ovNow, nonOverlapVars>>

\* updateConfig(newConfig), called while a run is suspended in the extractor.
liveUpdateConfig ==
  /\ \E r \in RunIds : ovRuns[r].pc = "awaiting"
  /\ \E newConfig \in OverlapConfigs :
       /\ newConfig # ovConfig
       /\ ovConfig' = newConfig
  /\ UNCHANGED <<ovCache, ovTs, ovNow, ovRuns, ovInvoked, nonOverlapVars>>

overlapTick ==
  /\ ovNow < MaxTime
  /\ ovNow' = ovNow + 1
  /\ UNCHANGED <<ovConfig, ovCache, ovTs, ovRuns, ovInvoked, nonOverlapVars>>

\* ------------------------------------------ StreamProcessor.mergeStreams
\* An input stream as its reader sees it: the chunks queued, the chunks its
\* producer may still enqueue, and whether the producer has closed it or
\* errored it.
InputStream(queued, left, state) ==
  [queued |-> queued, left |-> left, state |-> state]

InputError(i) == [isError |-> TRUE, text |-> <<"input ", ToString(i)>>]
EnqueueTypeError == [isError |-> TRUE, text |-> <<"TypeError: enqueue">>]
CloseTypeError == [isError |-> TRUE, text |-> <<"TypeError: close">>]

\* controller.error(e) of the merged stream: nothing happens unless the
\* stream is readable.
controllerError(merged, e) ==
  IF merged.state = "readable"
    THEN [merged EXCEPT !.state = "errored", !.error = e]
    ELSE merged

\* completedCount === streams.length
allCompleted(count, n) == count = n

MergeQuiet ==
  /\ mgInputs = <<>> /\ mgPumps = <<>> /\ mgCompleted = 0
  /\ mgMerged = [state |-> "none", out |-> <<>>, error |-> NoError]

\* A list of 0..MaxStreams input streams whose producers have up to MaxChunks
\* chunks each to enqueue.
MergeInit ==
  /\ \E n \in 0..MaxStreams :
       mgInputs \in [1..n -> {InputStream(0, k, "open") : k \in 0..MaxChunks}]
  /\ mgPumps = [i \in DOMAIN mgInputs |-> "none"]
  /\ mgCompleted = 0
  /\ mgMerged = [state |-> "none", out |-> <<>>, error |-> NoError]

\* mergeStreams(streams): start() takes a reader of every input and calls
\* pump for each; every pump suspends in its first reader.read().
mergeStreams ==
  /\ mgMerged.state = "none"
  /\ mgMerged' = [mgMerged EXCEPT !.state = "readable"]
  /\ mgPumps' = [i \in DOMAIN mgInputs |-> "reading"]
  /\ UNCHANGED <<mgInputs, mgCompleted, nonMergeVars>>

\* The producer of input i enqueues a chunk.
producerEnqueues ==
  \E i \in DOMAIN mgInputs :
    /\ mgInputs[i].state = "open" /\ mgInputs[i].left > 0
    /\ mgInputs' = [mgInputs EXCEPT ![i] =
                      InputStream(@.queued + 1, @.left - 1, "open")]
    /\ UNCHANGED <<mgPumps, mgCompleted, mgMerged, nonMergeVars>>

\* The producer of input i closes its stream: queued chunks stay readable.
producerCloses ==
  \E i \in DOMAIN mgInputs :
    /\ mgInputs[i].state = "open"
    /\ mgInputs' = [mgInputs EXCEPT ![i] = InputStream(@.queued, 0, "closed")]
    /\ UNCHANGED <<mgPumps, mgCompleted, mgMerged, nonMergeVars>>

\* The producer of input i errors its stream: queued chunks are dropped.
producerErrors ==
  \E i \in DOMAIN mgInputs :
    /\ mgInputs[i].state = "open"
    /\ mgInputs' = [mgInputs EXCEPT ![i] = InputStream(0, 0, "errored")]
    /\ UNCHANGED <<mgPumps, mgCompleted, mgMerged, nonMergeVars>>

\* reader.read() of pump i resolves with a chunk: controller.enqueue(value),
\* which throws when the merged stream is not readable any more.
readResolvesValue(i) ==
  /\ mgPumps[i] = "reading"
  /\ mgInputs[i].state # "errored" /\ mgInputs[i].queued > 0
  /\ mgInputs' = [mgInputs EXCEPT ![i].queued = @ - 1]
  /\ IF mgMerged.state = "readable"
       THEN /\ mgMerged' = [mgMerged EXCEPT !.out = Append(@, i)]
            /\ UNCHANGED mgPumps
       ELSE /\ mgMerged' = controllerError(mgMerged, EnqueueTypeError)
            /\ mgPumps' = [mgPumps EXCEPT ![i] = "failed"]
  /\ UNCHANGED <<mgCompleted, nonMergeVars>>

\* reader.read() of pump i resolves with done: the input is counted and the
\* merged stream is closed when the count says so.
readResolvesDone(i) ==
  /\ mgPumps[i] = "reading"
  /\ mgInputs[i].state = "closed" /\ mgInputs[i].queued = 0
  /\ mgCompleted' = mgCompleted + 1
  /\ IF allCompleted(mgCompleted', Len(mgInputs))
       THEN IF mgMerged.state = "readable"
              THEN /\ mgMerged' = [mgMerged EXCEPT !.state = "closed"]
                   /\ mgPumps' = [mgPumps EXCEPT ![i] = "done"]
              ELSE /\ mgMerged' = controllerError(mgMerged, CloseTypeError)
                   /\ mgPumps' = [mgPumps EXCEPT ![i] = "failed"]
       ELSE /\ mgPumps' = [mgPumps EXCEPT ![i] = "done"]
            /\ UNCHANGED mgMerged
  /\ UNCHANGED <<mgInputs, nonMergeVars>>

\* reader.read() of pump i rejects: catch, controller.error(error).
readRejects(i) ==
  /\ mgPumps[i] = "reading"
  /\ mgInputs[i].state = "errored"
  /\ mgMerged' = controllerError(mgMerged, InputError(i))
  /\ mgPumps' = [mgPumps EXCEPT ![i] = "failed"]
  /\ UNCHANGED <<mgInputs, mgCompleted, nonMergeVars>>

pump == \E i \in DOMAIN mgInputs :
          readResolvesValue(i) \/ readResolvesDone(i) \/ readRejects(i)

\* ------------------------------- the chunking loops, for any batchSize
\* The loops of StreamProcessor.process and EnrichTransformer.enrichParallel
\* as far as their termination goes: the index, the length of the slice in
\* hand and the number of items pushed.
Chunkers == {"process", "enrichParallel"}
BatchSizes == (0 - MaxNegBatch)..MaxBatch

\* Array.prototype.slice: a negative bound counts from the end, and both
\* bounds are clamped to 0..length.
relativeIndex(k, len) == IF k < 0 THEN (IF len + k < 0 THEN 0 ELSE len + k)
                         ELSE IF k > len THEN len ELSE k

\* data.slice(i, i + batchSize).length
sliceLength(len, i, bs) ==
  LET from == relativeIndex(i, len)
      to == relativeIndex(i + bs, len)
  IN IF to > from THEN to - from ELSE 0

\* for (let i = ...; i < data.length; ...): the test before an iteration.
\* The processor or fn is called on the slice, or results is returned.
chunkLoop(i, pushed) ==
  /\ ckI' = i
  /\ ckPushed' = pushed
  /\ IF i < ckLen
       THEN /\ ckPc' = "awaiting"
            /\ ckSlice' = sliceLength(ckLen, i, ckBatchSize)
       ELSE /\ ckPc' = "returned"
            /\ ckSlice' = 0

ChunkQuiet ==
  /\ ckKind = "process" /\ ckLen = 0 /\ ckBatchSize = 1
  /\ ckPc = "idle" /\ ckI = 0 /\ ckSlice = 0 /\ ckPushed = 0

\* An input of 0..MaxLen items and a configured batchSize, which nothing
\* validates: zero and negative numbers included.
ChunkInit ==
  /\ ckKind \in Chunkers
  /\ ckLen \in 0..MaxLen
  /\ ckBatchSize \in BatchSizes
  /\ ckPc = "idle" /\ ckI = 0 /\ ckSlice = 0 /\ ckPushed = 0

\* process(data, ...) with streaming enabled, or enrichParallel(data, ...),
\* up to the first await.
chunkedCall ==
  /\ ckPc = "idle"
  /\ chunkLoop(0, 0)
  /\ UNCHANGED <<ckKind, ckLen, ckBatchSize, nonChunkVars>>

\* The awaited chunk completes: processBatch resolves, or Promise.all of the
\* fn calls of the slice does; the results are pushed and i += batchSize.
\* The index is followed down to -MaxLen - 1 only.
chunkCompletes ==
  /\ ckPc = "awaiting"
  /\ ckI + ckBatchSize >= 0 - MaxLen - 1
  /\ chunkLoop(ckI + ckBatchSize, ckPushed + ckSlice)
  /\ UNCHANGED <<ckKind, ckLen, ckBatchSize, nonChunkVars>>

\* The awaited chunk fails: process logs the error (or the timeout) and goes
\* on with i += batchSize; enrichParallel rejects.
chunkFails ==
  /\ ckPc = "awaiting"
  /\ ckKind = "enrichParallel" => ckSlice > 0
  /\ ckI + ckBatchSize >= 0 - MaxLen - 1
  /\ IF ckKind = "process"
       THEN chunkLoop(ckI + ckBatchSize, ckPushed)
       ELSE /\ ckPc' = "thrown"
            /\ UNCHANGED <<ckI, ckSlice, ckPushed>>
  /\ UNCHANGED <<ckKind, ckLen, ckBatchSize, nonChunkVars>>

vars == <<pipeVars, recVars, enrichVars, streamVars, joinVars, utilCacheVars, pluginVars, multiVars, overlapVars, mergeVars, chunkVars>>

Init == PipelineInit /\ RecoveryQuiet /\ EnrichQuiet /\ StreamQuiet /\ JoinQuiet /\ CacheQuiet /\ PluginQuiet /\ MultiQuiet /\ OverlapQuiet /\ MergeQuiet /\ ChunkQuiet

Next ==
  \/ registerExtractor
  \/ registerTransformer
  \/ registerLoader
  \/ extract
  \/ transform
  \/ load
  \/ updateConfig
  \/ clearCache
  \/ Tick
  \/ run
  \/ executeStep
  \/ capabilityResolves
  \/ capabilityRejects
  \/ runReturns

Spec == Init /\ [][Next]_vars

InitRecovery == PipelineQuiet /\ RecoveryInit /\ EnrichQuiet /\ StreamQuiet /\ JoinQuiet /\ CacheQuiet /\ PluginQuiet /\ MultiQuiet /\ OverlapQuiet /\ MergeQuiet /\ ChunkQuiet

NextRecovery ==
  \/ executeWithRecovery
  \/ fnResolves
  \/ fnRejects
  \/ sleepElapsed

SpecRecovery == InitRecovery /\ [][NextRecovery]_vars

InitEnrich == PipelineQuiet /\ RecoveryQuiet /\ EnrichInit /\ StreamQuiet /\ JoinQuiet /\ CacheQuiet /\ PluginQuiet /\ MultiQuiet /\ OverlapQuiet /\ MergeQuiet /\ ChunkQuiet

NextEnrich ==
  \/ enrichTransform
  \/ enrichFnResolves
  \/ enrichFnRejects
  \/ enrichAwaitResumes

SpecEnrich == InitEnrich /\ [][NextEnrich]_vars

InitStream == PipelineQuiet /\ RecoveryQuiet /\ EnrichQuiet /\ StreamInit /\ JoinQuiet /\ CacheQuiet /\ PluginQuiet /\ MultiQuiet /\ OverlapQuiet /\ MergeQuiet /\ ChunkQuiet

NextStream ==
  \/ streamProcess
  \/ processorResolves
  \/ processorRejects
  \/ batchResolves
  \/ batchRejects
  \/ batchTimesOut
  \/ abandonedSettles

SpecStream == InitStream /\ [][NextStream]_vars

InitJoin ==
  PipelineQuiet /\ RecoveryQuiet /\ EnrichQuiet /\ StreamQuiet /\ JoinInit /\ CacheQuiet /\ PluginQuiet /\ MultiQuiet /\ OverlapQuiet /\ MergeQuiet /\ ChunkQuiet

NextJoin == joinTransform

SpecJoin == InitJoin /\ [][NextJoin]_vars

InitCache ==
  /\ PipelineQuiet /\ RecoveryQuiet /\ EnrichQuiet /\ StreamQuiet /\ JoinQuiet /\ PluginQuiet /\ MultiQuiet /\ OverlapQuiet /\ MergeQuiet /\ ChunkQuiet
  /\ CacheInit

NextCache ==
  \/ cacheSet
  \/ cacheGet
  \/ cacheHas
  \/ cacheDelete
  \/ cacheClear
  \/ cacheSize
  \/ cleanExpired
  \/ cacheTick

SpecCache == InitCache /\ [][NextCache]_vars

InitPlugins ==
  /\ PipelineQuiet /\ RecoveryQuiet /\ EnrichQuiet /\ StreamQuiet /\ JoinQuiet /\ MultiQuiet /\ OverlapQuiet /\ MergeQuiet /\ ChunkQuiet
  /\ CacheQuiet /\ PluginInit

NextPlugins ==
  \/ registerPlugin
  \/ initializeResolves
  \/ initializeRejects
  \/ unregisterPlugin
  \/ cleanupResolves
  \/ cleanupRejects
  \/ clearAll

SpecPlugins == InitPlugins /\ [][NextPlugins]_vars

\* new PluginManager(), used by a caller that makes a second call while the
\* first is suspended in a hook of a plugin.
InitPluginsOverlap ==
  /\ PipelineQuiet /\ RecoveryQuiet /\ EnrichQuiet /\ StreamQuiet /\ JoinQuiet /\ MergeQuiet /\ ChunkQuiet
  /\ MultiQuiet /\ OverlapQuiet /\ CacheQuiet
  /\ pmPlugins = <<>>
  /\ pmExtractors = EmptyMap /\ pmTransformers = EmptyMap
  /\ pmLoaders = EmptyMap
  /\ pmCalls = [c \in Callers |-> NoPluginCall]
  /\ pmOutcome = [c \in Callers |-> NoPluginOutcome]
  /\ pmOverlap = TRUE

\* Calls of registerPlugin only.
NextPluginsOverlap ==
  \/ registerPlugin
  \/ initializeResolves
  \/ initializeRejects

SpecPluginsOverlap == InitPluginsOverlap /\ [][NextPluginsOverlap]_vars

InitMultiple ==
  /\ PipelineQuiet /\ RecoveryQuiet /\ EnrichQuiet /\ StreamQuiet /\ JoinQuiet /\ OverlapQuiet /\ MergeQuiet /\ ChunkQuiet
  /\ CacheQuiet /\ PluginQuiet /\ MultiInit

NextMultiple ==
  \/ executeMultipleWithRecovery
  \/ operationFnResolves
  \/ operationFnRejects
  \/ operationSleepElapsed
  \/ operationAwaited

SpecMultiple == InitMultiple /\ [][NextMultiple]_vars

InitParallel == InitMultiple

NextParallel ==
  \/ executeParallelWithRecovery
  \/ operationFnResolves
  \/ operationFnRejects
  \/ operationSleepElapsed
  \/ parallelReturns

SpecParallel == InitParallel /\ [][NextParallel]_vars

InitOverlap ==
  /\ PipelineQuiet /\ RecoveryQuiet /\ EnrichQuiet /\ StreamQuiet /\ JoinQuiet /\ MergeQuiet /\ ChunkQuiet
  /\ CacheQuiet /\ PluginQuiet /\ MultiQuiet /\ OverlapInit

NextOverlap ==
  \/ overlapRun
  \/ overlapLoop
  \/ overlapExtractorResolves
  \/ overlapExtractorRejects
  \/ overlapTick

\* Two calls of run() that may overlap, the configuration left alone.
SpecOverlap == InitOverlap /\ [][NextOverlap]_vars

NextLiveConfig ==
  \/ awaitedRun
  \/ overlapLoop
  \/ overlapExtractorResolves
  \/ overlapExtractorRejects
  \/ liveUpdateConfig
  \/ overlapTick

\* Runs awaited one after the other, updateConfig called at any await.
SpecLiveConfig == InitOverlap /\ [][NextLiveConfig]_vars

InitMerge ==
  /\ PipelineQuiet /\ RecoveryQuiet /\ EnrichQuiet /\ StreamQuiet /\ JoinQuiet /\ ChunkQuiet
  /\ CacheQuiet /\ PluginQuiet /\ MultiQuiet /\ OverlapQuiet /\ MergeInit

NextMerge ==
  \/ mergeStreams
  \/ producerEnqueues
  \/ producerCloses
  \/ producerErrors
  \/ pump

\* The pumps run whenever a read has settled; a producer may stay silent.
SpecMerge ==
  InitMerge /\ [][NextMerge]_vars /\ WF_vars(mergeStreams) /\ WF_vars(pump)

InitChunking ==
  /\ PipelineQuiet /\ RecoveryQuiet /\ EnrichQuiet /\ StreamQuiet /\ JoinQuiet
  /\ CacheQuiet /\ PluginQuiet /\ MultiQuiet /\ OverlapQuiet /\ MergeQuiet
  /\ ChunkInit

NextChunking ==
  \/ chunkedCall
  \/ chunkCompletes
  \/ chunkFails

\* The call is made, and every processor, fn and timer settles in the end.
SpecChunking ==
  /\ InitChunking /\ [][NextChunking]_vars
  /\ WF_vars(chunkedCall) /\ WF_vars(chunkCompletes \/ chunkFails)

TypeOK ==
  /\ pc \in {"idle", "loop", "awaiting", "done"}
  /\ Len(steps) <= MaxSteps
  /\ DOMAIN cache = DOMAIN cacheTimestamps

\* ------------------------------------------------------------------ claims
ExecutesStep == pc = "loop" /\ stepIdx <= Len(steps) /\ started' # started

LastOf(q) == q[Len(q)]

\* C1: run() starts the steps in the order they were added, one at a time
\* (no step is started while the capability of the previous one is still
\* awaited), and the step results hold exactly one entry per started step,
\* failed steps included, in execution order.
C1_StepsInOrder ==
  /\ \A k \in 1..Len(started) : started[k] = k
  /\ \A i, j \in 1..Len(invoked) : i < j => invoked[i] < invoked[j]
  /\ pc = "awaiting" => /\ Len(started) = Len(stepResults) + 1
                        /\ pending.idx = Len(started)
  /\ pc # "awaiting" => Len(stepResults) = Len(started)
  /\ \A k \in 1..Len(stepResults) : stepResults[k].name = steps[started[k]].name
  /\ result.returned => /\ result.steps = stepResults
                        /\ Len(result.steps) = Len(started)

C1_Witness ==
  /\ result.returned
  /\ Len(result.steps) = 2
  /\ result.steps[1].name # result.steps[2].name
  /\ ~result.steps[2].success

\* C2 as stated: when the capability of a non-optional step throws, run()
\* stops there and returns success=false, error equal to the thrown value and
\* data equal to the value carried before the failing step.
C2_ErrorIsThrownValue ==
  [][(pc = "awaiting" /\ raised' # NoError /\ ~steps[stepIdx].optional) =>
       /\ pc' = "done" /\ result'.returned /\ ~result'.success
       /\ result'.error = raised'
       /\ result'.data = currentData
       /\ started' = started]_vars

\* C2 amended: as C2, except that error is the thrown value only when that
\* value is an Error; any other thrown value is replaced by a new Error whose
\* message is the string form of the thrown value.  After the failure no
\* further step is started.
C2_ErrorIsThrownOrWrapped ==
  /\ [][(pc = "awaiting" /\ raised' # NoError /\ ~steps[stepIdx].optional) =>
          /\ pc' = "done" /\ result'.returned /\ ~result'.success
          /\ raised'.isError => result'.error = raised'
          /\ ~raised'.isError =>
               result'.error = [isError |-> TRUE, text |-> raised'.text]
          /\ result'.data = currentData
          /\ started' = started]_vars
  /\ []((pc = "done" /\ ~result.success) =>
          /\ Len(started) = Len(result.steps)
          /\ ~LastOf(result.steps).success
          /\ \A k \in 1..(Len(result.steps) - 1) :
               result.steps[k].success \/ steps[k].optional)

C2_Witness ==
  /\ pc = "done" /\ ~result.success
  /\ raised # NoError /\ ~raised.isError
  /\ result.data = "d1"

C4_CachedExtractNotReinvoked ==
  [][(/\ ExecutesStep
      /\ steps[stepIdx].type = "extract"
      /\ steps[stepIdx].name \in extractors) =>
       LET key == generateCacheKey(steps[stepIdx]) IN
       /\ (/\ config.enableCache
           /\ runs > 1
           /\ key \in DOMAIN cacheTimestamps
           /\ now - cacheTimestamps[key] <= config.cacheDuration) =>
            /\ invoked' = invoked
            /\ currentData' = cache[key]
       /\ ~config.enableCache => invoked' = Append(invoked, stepIdx)]_vars

\* C5 as stated: the cacheHits of a result is the number of extract steps of
\* the run served from the cache, and its cacheMisses the number of extract
\* steps of the run that invoked the extractor.
C5_CountersMatchRun ==
  result.returned =>
    /\ result.cacheHits = Len(served)
    /\ result.cacheMisses =
         Cardinality({k \in 1..Len(invoked) : steps[invoked[k]].type = "extract"})

\* C6: an extract step that finds an entry older than the cache duration
\* under its key evicts the entry and invokes the extractor, and the value the
\* extractor resolves with is stored under the key with the current time.
C6_ExpiredEntryRefetched ==
  [][/\ (/\ ExecutesStep
         /\ steps[stepIdx].type = "extract"
         /\ steps[stepIdx].name \in extractors
         /\ config.enableCache
         /\ generateCacheKey(steps[stepIdx]) \in DOMAIN cacheTimestamps
         /\ now - cacheTimestamps[generateCacheKey(steps[stepIdx])]
              > config.cacheDuration) =>
          /\ generateCacheKey(steps[stepIdx]) \notin DOMAIN cache'
          /\ generateCacheKey(steps[stepIdx]) \notin DOMAIN cacheTimestamps'
          /\ pc' = "awaiting"
          /\ invoked' = Append(invoked, stepIdx)
     /\ (/\ pc = "awaiting"
         /\ steps[stepIdx].type = "extract"
         /\ config.enableCache
         /\ Len(stepResults') = Len(stepResults) + 1
         /\ LastOf(stepResults').success) =>
          /\ generateCacheKey(steps[stepIdx]) \in DOMAIN cache'
          /\ cache'[generateCacheKey(steps[stepIdx])] = currentData'
          /\ cacheTimestamps'[generateCacheKey(steps[stepIdx])] = now]_vars

C6_Witness ==
  \E k \in evicted :
    /\ k \in DOMAIN cacheTimestamps
    /\ cacheTimestamps[k] = now
    /\ now > 1 + config.cacheDuration

\* C7 as stated: a step whose name is not registered stops the run with
\* success=false and the not-found error, whether or not the step is optional,
\* and no capability is invoked for it.
C7_NotFoundIsFatal ==
  [][(ExecutesStep /\ steps[stepIdx].name \notin Registry(steps[stepIdx])) =>
       /\ pc' = "done" /\ result'.returned /\ ~result'.success
       /\ result'.error = NotFound(steps[stepIdx])
       /\ invoked' = invoked]_vars

\* C8: with recovery enabled the operation is invoked at most maxRetries + 1
\* times, and a call that returns does so with the value of the first
\* successful attempt, right after it: k - 1 failures, k invocations.
C8_BoundedAttempts ==
  recConfig.enabled =>
    /\ calls <= recConfig.maxRetries + 1
    /\ Len(thrownLog) <= calls
    /\ recPc = "returned" => /\ outcome.kind = "returned"
                             /\ outcome.value \in OpValues
                             /\ calls = Len(thrownLog) + 1
    /\ recPc = "calling" => calls = Len(thrownLog) + 1

C8_Witness ==
  /\ recConfig.enabled /\ recPc = "returned"
  /\ recConfig.maxRetries = 2 /\ calls = 3

C10_ExhaustedErrorAndPassThrough ==
  /\ (recConfig.enabled /\ recPc = "thrown") =>
       LET text == outcome.error.text
           last == LastOf(thrownLog).text IN
       /\ calls = recConfig.maxRetries + 1
       /\ Len(thrownLog) = recConfig.maxRetries + 1
       /\ outcome.error.isError
       /\ outcome.error # LastOf(thrownLog)
       /\ text[2] = ToString(recConfig.maxRetries)
       /\ Truthy(context) => \E i \in 1..Len(text) : text[i] = context
       /\ ~Truthy(context) => Len(text) = 4 + Len(last)
       /\ SubSeq(text, Len(text) - Len(last) + 1, Len(text)) = last
  /\ (~recConfig.enabled /\ recPc # "idle") =>
       /\ calls = 1
       /\ recPc = "thrown" => /\ Len(thrownLog) = 1
                              /\ outcome.error = thrownLog[1]
       /\ recPc = "returned" => /\ thrownLog = <<>>
                                /\ outcome.value \in OpValues

C10_Witness ==
  /\ recConfig.enabled /\ recPc = "thrown"
  /\ Len(thrownLog) = 3
  /\ thrownLog[1] # thrownLog[3]
  /\ context = "op"

\* ------------------------------------------------------------------ enrich
\* C11: for an array input in either mode, when every call of fn succeeds the
\* output has the length of the input and output[i] is fn(input[i]), whatever
\* the order in which the calls resolved; the call fails only if a call of fn
\* was rejected.
C11_ArrayResultsInInputOrder ==
  /\ (enKind = "array" /\ enPc = "returned") =>
       /\ Len(enValue) = Len(enItems)
       /\ \A i \in 1..Len(enItems) : enValue[i] = Fn(NumberArg(enItems[i]))
  /\ (enKind = "array" /\ enPc = "thrown") => enRejected # <<>>

\* A parallel run over an array returned although the calls of its last batch
\* resolved in the reverse of the input order, with different results.
C11_Witness ==
  /\ enKind = "array" /\ enParallel /\ enPc = "returned"
  /\ Len(enOrder) >= 2
  /\ enOrder[1] > enOrder[2]
  /\ enItems[enOrder[1]] # enItems[enOrder[2]]

\* C12: parallel enrich calls fn on contiguous chunks of batchSize items in
\* input order; when a chunk is started no earlier call is in flight and none
\* has been rejected; at most batchSize calls are in flight at any time.
C12_BatchesContiguousAndBounded ==
  enParallel =>
    /\ Cardinality(enFlight) <= enBatchSize
    /\ \A k \in 1..Len(enStarts) :
         /\ enStarts[k].from = (k - 1) * enBatchSize + 1
         /\ enStarts[k].to = Min(k * enBatchSize, Len(enItems))
         /\ enStarts[k].flight = {}
         /\ enStarts[k].failed = 0

\* A second chunk has been started with a batch size above one, and it is
\* shorter than the first.
C12_Witness ==
  /\ enParallel /\ enBatchSize >= 2 /\ enPc = "awaiting"
  /\ Len(enStarts) >= 2
  /\ enStarts[Len(enStarts)].to - enStarts[Len(enStarts)].from + 1 < enBatchSize

\* C13: sequential enrich has at most one call of fn in flight; once a call
\* has been rejected no further call is made, and the whole call is rejected
\* with that very error, without a value.
C13_SequentialStopsAtFirstRejection ==
  [][~enParallel =>
       /\ Cardinality(enFlight') <= 1
       /\ enRejected # <<>> => enLog' = enLog
       /\ enRejected' # <<>> =>
            /\ enPc' = "thrown"
            /\ enError' = enRejected'[1]
            /\ enValue' = <<>>]_vars

\* A sequential run was rejected by its second call with a value that is not
\* an Error, items being left unvisited.
C13_Witness ==
  /\ ~enParallel /\ enPc = "thrown"
  /\ Len(enLog) = 2 /\ Len(enItems) > 2
  /\ Len(enRejected) = 1 /\ ~enRejected[1].isError

\* C14: for an object input fn is called exactly once per entry, with the
\* entry as { key, value }, and the result is an object with the same keys
\* whose values are the results of fn, in parallel mode as in sequential mode.
C14_ObjectEntriesEnriched ==
  (enKind = "object" /\ enPc \in {"returned", "thrown"} /\ enRejected = <<>>) =>
    /\ enPc = "returned"
    /\ enValue = ObjectOf(enItems,
                          [j \in DOMAIN enItems |-> Fn(ObjectArg(enItems[j]))])
    /\ enLog = [j \in DOMAIN enItems |->
                  [pos |-> j, arg |-> ObjectArg(enItems[j])]]

\* ------------------------------------------------------------------ stream
Ceil(a, b) == (a + b - 1) \div b

RECURSIVE Concat(_)
Concat(ss) == IF ss = <<>> THEN <<>> ELSE Head(ss) \o Concat(Tail(ss))

\* The normalized results of the chunks that completed in time, in order.
RECURSIVE Completed(_)
Completed(outs) ==
  IF outs = <<>> THEN <<>>
  ELSE (IF Head(outs).kind = "ok" THEN Normalize(Head(outs).raw) ELSE <<>>)
       \o Completed(Tail(outs))

\* The raw results of the chunks that completed in time, in order.
RECURSIVE RawCompleted(_)
RawCompleted(outs) ==
  IF outs = <<>> THEN <<>>
  ELSE (IF Head(outs).kind = "ok" THEN <<Head(outs).raw>> ELSE <<>>)
       \o RawCompleted(Tail(outs))

\* C15: with streaming enabled the processor is called once per contiguous
\* chunk of batchSize items in input order, only the last chunk may be
\* shorter, the chunks concatenated in call order are the input and there are
\* ceil(length / batchSize) calls; with streaming disabled the processor is
\* called exactly once, with the whole input.
C15_ChunksPartitionInput ==
  /\ stEnabled =>
       /\ \A k \in 1..Len(stCalls) :
            /\ Len(stCalls[k]) \in 1..stBatchSize
            /\ Len(stCalls[k]) = stBatchSize
                 \/ k = Ceil(Len(stData), stBatchSize)
       /\ Len(Concat(stCalls)) <= Len(stData)
       /\ Concat(stCalls) = SubSeq(stData, 1, Len(Concat(stCalls)))
       /\ stPc = "returned" =>
            /\ Concat(stCalls) = stData
            /\ Len(stCalls) = Ceil(Len(stData), stBatchSize)
  /\ (~stEnabled /\ stPc # "idle") => stCalls = <<stData>>

\* A streaming call over three chunks, the last one shorter, has returned
\* although its second chunk failed.
C15_Witness ==
  /\ stEnabled /\ stPc = "returned" /\ stBatchSize >= 2
  /\ Len(stCalls) >= 2
  /\ Len(stCalls[Len(stCalls)]) < stBatchSize
  /\ stOutcomes[1].kind # "ok"

\* C16: with streaming enabled process never fails, whatever the processor
\* does; a failed chunk is attempted once and not retried; the value returned
\* is the in-order concatenation of the results of exactly the chunks that
\* completed in time.
C16_StreamingNeverFails ==
  stEnabled =>
    /\ stPc # "thrown"
    /\ Len(stCalls) <= Ceil(Len(stData), stBatchSize)
    /\ stPc = "returned" => stValue = Completed(stOutcomes)

\* C17: the result of every chunk that completes in time is appended,
\* normalized, to the accumulated output, and onBatch is invoked exactly once
\* with the raw result of each such chunk and of no other chunk.
C17_CompletedChunksAppendedAndReported ==
  stEnabled =>
    /\ stResults = Completed(stOutcomes)
    /\ stOnBatch # "none" => stOnBatchLog = RawCompleted(stOutcomes)

\* -------------------------------------------------------------------- join
\* The fields a right record may bring.
RightFields == {"id", "age", "tag"}

\* The position of the last record of data whose key is k.
LastWithKey(data, k) ==
  CHOOSE j \in DOMAIN data :
    /\ getNestedValue(data[j], JoinKey) = k
    /\ \A h \in DOMAIN data : getNestedValue(data[h], JoinKey) = k => h <= j

\* The key values that resolve in some record of data.
KeysOf(data) ==
  {getNestedValue(data[j], JoinKey) : j \in DOMAIN data} \ {Undefined}

\* C18: the output of a nested join has as many records as the left input and
\* record i of the output is derived from record i of the left input: it has
\* every field of that record, with the left value for the key and for every
\* field that right records do not carry.
C18_NestedKeepsLeftCardinalityAndOrder ==
  (jnMode = "nested" /\ jnPc = "returned") =>
    /\ Len(jnOut) = Len(jnLeft)
    /\ \A i \in DOMAIN jnLeft :
         \A f \in DOMAIN jnLeft[i] :
           /\ f \in DOMAIN jnOut[i]
           /\ f \in {JoinKey} \cup (DOMAIN jnLeft[i] \ RightFields) =>
                jnOut[i][f] = jnLeft[i][f]

\* A nested join with a joinFn has returned for two different left records,
\* the first without a key, and two right records sharing the key of the
\* second left record.
C18_Witness ==
  /\ jnMode = "nested" /\ jnPc = "returned" /\ jnJoinFn
  /\ Len(jnLeft) = 2 /\ Len(jnRight) = 2
  /\ jnLeft[1]["name"] # jnLeft[2]["name"]
  /\ getNestedValue(jnLeft[1], JoinKey) = Undefined
  /\ getNestedValue(jnLeft[2], JoinKey) # Undefined
  /\ getNestedValue(jnRight[1], JoinKey) = getNestedValue(jnLeft[2], JoinKey)
  /\ getNestedValue(jnRight[2], JoinKey) = getNestedValue(jnLeft[2], JoinKey)

\* C19: in a nested join a left record whose key is found among the right
\* records is combined with the last right record of that key (right fields
\* over left fields, or joinFn(left, right)), and a left record whose key is
\* not found is emitted unchanged.
C19_NestedCombinesOrEmitsUnchanged ==
  (jnMode = "nested" /\ jnPc = "returned" /\ Len(jnOut) = Len(jnLeft)) =>
    \A i \in DOMAIN jnLeft :
      LET keyValue == getNestedValue(jnLeft[i], JoinKey) IN
      IF keyValue \in KeysOf(jnRight)
        THEN LET right == jnRight[LastWithKey(jnRight, keyValue)] IN
             jnOut[i] = IF jnJoinFn THEN customJoinFn(<<jnLeft[i]>>, <<right>>)
                        ELSE Merge(jnLeft[i], right)
        ELSE jnOut[i] = jnLeft[i]

\* C20 as stated: the output of a parallel join has exactly one record per
\* distinct key value of either side, and the record of a key of one side
\* only holds that side's fields only.
C20_ParallelOneRecordPerKey ==
  (jnMode = "parallel" /\ jnPc = "returned") =>
    /\ Len(jnOut) = Cardinality(KeysOf(jnLeft) \cup KeysOf(jnRight))
    /\ \A k \in KeysOf(jnLeft) \cup KeysOf(jnRight) :
         \E i \in DOMAIN jnOut :
           /\ getNestedValue(jnOut[i], JoinKey) = k
           /\ k \notin KeysOf(jnRight) =>
                DOMAIN jnOut[i] \subseteq DOMAIN jnLeft[LastWithKey(jnLeft, k)]
           /\ k \notin KeysOf(jnLeft) =>
                DOMAIN jnOut[i] \subseteq DOMAIN jnRight[LastWithKey(jnRight, k)]

\* C20, amended: one record per distinct key value of either side; without a
\* joinFn the record of a key of one side only is that side's record, with a
\* joinFn it is what joinFn returns for that record and undefined.
C20_ParallelOneRecordPerKeyDefaultMerge ==
  (jnMode = "parallel" /\ jnPc = "returned") =>
    /\ Len(jnOut) = Cardinality(KeysOf(jnLeft) \cup KeysOf(jnRight))
    /\ \A k \in KeysOf(jnLeft) \cup KeysOf(jnRight) :
         \E i \in DOMAIN jnOut :
           /\ getNestedValue(jnOut[i], JoinKey) = k
           /\ k \notin KeysOf(jnRight) =>
                LET left == jnLeft[LastWithKey(jnLeft, k)] IN
                jnOut[i] = IF jnJoinFn THEN customJoinFn(<<left>>, <<>>) ELSE left
           /\ k \notin KeysOf(jnLeft) =>
                LET right == jnRight[LastWithKey(jnRight, k)] IN
                jnOut[i] = IF jnJoinFn THEN customJoinFn(<<>>, <<right>>) ELSE right

\* A parallel join without joinFn has returned fewer records than the two
\* inputs hold, one key being on the left only and one on both sides.
C20_Witness ==
  /\ jnMode = "parallel" /\ jnPc = "returned" /\ ~jnJoinFn
  /\ KeysOf(jnLeft) \ KeysOf(jnRight) # {}
  /\ KeysOf(jnLeft) \cap KeysOf(jnRight) # {}
  /\ Len(jnOut) < Len(jnLeft) + Len(jnRight)

\* The values of s without repetition, each at its first position.
RECURSIVE Distinct(_)
Distinct(s) ==
  IF s = <<>> THEN <<>>
  ELSE LET front == Distinct(SubSeq(s, 1, Len(s) - 1)) IN
       IF \E j \in DOMAIN front : front[j] = s[Len(s)] THEN front
       ELSE Append(front, s[Len(s)])

\* The resolved key values of the records of data, in order.
KeySeq(data) ==
  LET keyed == SelectSeq(data, LAMBDA r : getNestedValue(r, JoinKey) # Undefined)
  IN [j \in DOMAIN keyed |-> getNestedValue(keyed[j], JoinKey)]

\* C21: the records of a parallel join come in the order of the union of the
\* keys: the keys of the left input in the order of their first appearance
\* there, then the keys found in the right input only, in right-input order.
C21_ParallelFollowsKeyInsertionOrder ==
  (jnMode = "parallel" /\ jnPc = "returned") =>
    [i \in DOMAIN jnOut |-> getNestedValue(jnOut[i], JoinKey)]
      = Distinct(KeySeq(jnLeft) \o KeySeq(jnRight))

\* A parallel join has returned for a right input that starts with a key the
\* left input does not have and goes on with the key of the left input.
C21_Witness ==
  /\ jnMode = "parallel" /\ jnPc = "returned"
  /\ Len(KeySeq(jnLeft)) >= 1 /\ Len(KeySeq(jnRight)) = 2
  /\ KeySeq(jnRight)[1] \notin KeysOf(jnLeft)
  /\ KeySeq(jnRight)[2] \in KeysOf(jnLeft)

\* C22: in nested mode and in parallel mode alike every left record whose
\* key does not resolve appears in the result of the join.
C22_UnresolvedLeftRecordsKept ==
  jnPc = "returned" =>
    \A i \in DOMAIN jnLeft :
      getNestedValue(jnLeft[i], JoinKey) = Undefined =>
        \E j \in DOMAIN jnOut :
          \A f \in DOMAIN jnLeft[i] :
            f \in DOMAIN jnOut[j] /\ jnOut[j][f] = jnLeft[i][f]

\* C23: in both modes an operand that is not an array makes transform fail
\* with an error, without output and without any call of joinFn.
C23_NonArrayOperandFails ==
  (jnPc # "idle" /\ (~isArray(jnLeftKind) \/ ~isArray(jnRightKind))) =>
    /\ jnPc = "thrown"
    /\ jnError # NoError
    /\ jnOut = <<>>
    /\ jnCombined = 0

\* A join with a joinFn was given an array on the left and an object on the
\* right, and has thrown.
C23_Witness ==
  /\ jnPc = "thrown" /\ jnJoinFn
  /\ jnLeftKind = "array" /\ Len(jnLeft) >= 1 /\ jnRightKind = "object"

\* ------------------------------------------------------------------- cache
\* The step is a call of the operation o (the clock does not move in a call).
CacheOp(o) == chNow' = chNow /\ chRet'.op = o

\* C24: get(key) returns the value of the entry of key when that entry exists
\* and now - timestamp <= ttl, and null otherwise; set puts in place of any
\* entry of the key a new one with the value given, the time of the call and
\* the ttl given (the default for a falsy ttl); no other call changes an entry
\* that stays, so that the value of an entry is the value most recently set.
C24_GetReturnsUnexpiredLastSet ==
  [][/\ CacheOp("get") =>
          LET k == chRet'.key IN
          chRet'.data = IF /\ k \in DOMAIN chStorage
                           /\ chNow - chStorage[k].timestamp <= chStorage[k].ttl
                          THEN chStorage[k].data
                          ELSE Null
     /\ CacheOp("set") =>
          LET k == chRet'.key IN
          /\ k \in DOMAIN chStorage'
          /\ chStorage'[k] = [data |-> chRet'.data, timestamp |-> chNow,
                              ttl |-> orDefault(chRet'.ttl, chDefaultTTL)]
     /\ \A k \in DOMAIN chStorage \cap DOMAIN chStorage' :
          ~(CacheOp("set") /\ chRet'.key = k) => chStorage'[k] = chStorage[k]
    ]_vars

\* get has just returned the value of an entry whose age equals its ttl.
C24_Witness ==
  /\ chRet.op = "get" /\ chRet.at = chNow /\ chRet.data = "v2"
  /\ chRet.key \in DOMAIN chStorage
  /\ chStorage[chRet.key].ttl >= 1
  /\ chNow - chStorage[chRet.key].timestamp = chStorage[chRet.key].ttl

\* C25: at every time and for every key and stored value, has(key) is true
\* exactly when get(key) returns a value rather than null.
C25_HasIsBooleanGet ==
  \A k \in CacheKeys :
    hasResult(chStorage, k, chNow) = (getResult(chStorage, k, chNow) # Null)

\* C26: an expired entry stays in the storage, counted by size, while time
\* passes and while other keys are accessed; get or has of its own key removes
\* it; cleanExpired removes exactly the entries expired at the time of the
\* call and returns their number.
C26_ExpiredEvictedOnlyAtAccess ==
  [][/\ \A k \in DOMAIN chStorage :
          (chNow - chStorage[k].timestamp > chStorage[k].ttl) =>
            /\ (\/ chNow' # chNow
                \/ CacheOp("size")
                \/ /\ chRet'.key # k
                   /\ \/ CacheOp("get") \/ CacheOp("has")
                      \/ CacheOp("set") \/ CacheOp("delete"))
                 => (k \in DOMAIN chStorage' /\ chStorage'[k] = chStorage[k])
            /\ ((CacheOp("get") \/ CacheOp("has")) /\ chRet'.key = k)
                 => k \notin DOMAIN chStorage'
     /\ CacheOp("size") => chRet'.count = Cardinality(DOMAIN chStorage)
     /\ CacheOp("cleanExpired") =>
          /\ DOMAIN chStorage' =
               {k \in DOMAIN chStorage :
                  chNow - chStorage[k].timestamp <= chStorage[k].ttl}
          /\ \A k \in DOMAIN chStorage' : chStorage'[k] = chStorage[k]
          /\ chRet'.count = Cardinality(DOMAIN chStorage)
                              - Cardinality(DOMAIN chStorage')
    ]_vars

\* cleanExpired has just removed one entry and left another in place.
C26_Witness ==
  /\ chRet.op = "cleanExpired" /\ chRet.at = chNow /\ chRet.count = 1
  /\ Cardinality(DOMAIN chStorage) = 1

\* ----------------------------------------------------------- PluginManager
\* The step starts a call of op(arg) by c: the call suspends in a hook or
\* settles at once.
StartedAs(c, op, arg) ==
  /\ pmCalls[c].pc = "idle"
  /\ \/ pmCalls'[c].op = op /\ pmCalls'[c].arg = arg
     \/ /\ pmCalls'[c].pc = "idle"
        /\ pmOutcome'[c] # pmOutcome[c]
        /\ pmOutcome'[c].op = op /\ pmOutcome'[c].arg = arg

\* The three registries hold nothing.
RegistriesEmpty(e, t, l) == e = EmptyMap /\ t = EmptyMap /\ l = EmptyMap

\* Every capability of the registry that plugin a did not contribute and
\* whose plugin is registered in plugins has the same entry in after.
OthersKept(registry, after, a, plugins) ==
  \A n \in DOMAIN registry :
    (registry[n] # a /\ registry[n] \in ElementsOf(plugins)) =>
      (n \in DOMAIN after /\ after[n] = registry[n])

\* C27: when a call of unregisterPlugin(A) resolves, A is not registered any
\* more, no capability of A is left in a registry, and every capability in a
\* registry before the call that another plugin contributed, that plugin
\* being still registered, is still found under its name.
C27_OtherPluginsCapabilitiesRemain ==
  [][\A c \in Callers :
       (/\ pmCalls[c].op = "unregisterPlugin" /\ pmCalls[c].pc = "cleanup"
        /\ pmCalls'[c].pc = "idle" /\ pmOutcome'[c].ok) =>
         LET a == pmCalls[c].arg IN
         /\ a \notin ElementsOf(pmPlugins')
         /\ \A n \in DOMAIN pmExtractors' : pmExtractors'[n] # a
         /\ \A n \in DOMAIN pmTransformers' : pmTransformers'[n] # a
         /\ \A n \in DOMAIN pmLoaders' : pmLoaders'[n] # a
         /\ OthersKept(pmExtractors, pmExtractors', a, pmPlugins')
         /\ OthersKept(pmTransformers, pmTransformers', a, pmPlugins')
         /\ OthersKept(pmLoaders, pmLoaders', a, pmPlugins')
    ]_vars

\* C28: clearAll takes the registered names in registration order and runs
\* cleanup and removal one plugin after the other in that order; when it
\* resolves no plugin and no capability is left; when a cleanup rejects,
\* clearAll rejects with the failure of that plugin, the plugins before it
\* are removed, it and the plugins after it stay registered, and no cleanup
\* hook of a later plugin has been invoked.
C28_ClearAllInRegistrationOrder ==
  [][\A c \in Callers :
       LET call == pmCalls[c]
           out == pmOutcome'[c]
           rest == SubSeq(call.names, call.idx, Len(call.names))
       IN
       /\ (StartedAs(c, "clearAll", "") /\ pmCalls'[c].pc = "cleanup") =>
            /\ pmCalls'[c].names = pmPlugins
            /\ pmCalls'[c].idx = 1
       /\ (StartedAs(c, "clearAll", "") /\ pmCalls'[c].pc = "idle") =>
            /\ out.ok /\ pmPlugins' = <<>>
            /\ RegistriesEmpty(pmExtractors', pmTransformers', pmLoaders')
       /\ (call.op = "clearAll" /\ call.pc = "cleanup") =>
            /\ pmPlugins = rest
            /\ call.cleaned = SubSeq(call.names, 1, call.idx)
            /\ pmCalls'[c].pc = "cleanup" =>
                 /\ pmCalls'[c].idx = call.idx + 1
                 /\ pmCalls'[c].names = call.names
            /\ (pmCalls'[c].pc = "idle" /\ out.ok) =>
                 /\ pmPlugins' = <<>>
                 /\ RegistriesEmpty(pmExtractors', pmTransformers', pmLoaders')
                 /\ out.cleaned = call.names
            /\ (pmCalls'[c].pc = "idle" /\ ~out.ok) =>
                 /\ \E e \in Thrown :
                      out.error = CleanupFailed(call.names[call.idx], e)
                 /\ pmPlugins' = rest
                 /\ out.cleaned = SubSeq(call.names, 1, call.idx)
                 /\ UNCHANGED <<pmExtractors, pmTransformers, pmLoaders>>
    ]_vars

\* clearAll has just failed at the second of three plugins: the first is
\* removed, the second and the third are registered.
C28_Witness ==
  /\ pmOutcome["c1"].op = "clearAll" /\ ~pmOutcome["c1"].ok
  /\ pmCalls["c1"].pc = "idle"
  /\ Len(pmOutcome["c1"].names) = 3 /\ Len(pmOutcome["c1"].cleaned) = 2
  /\ pmPlugins = SubSeq(pmOutcome["c1"].names, 2, 3)

\* C29: registerPlugin of a registered name rejects without suspending in
\* initialize, unregisterPlugin of a name not registered rejects without
\* suspending in cleanup, and registerPlugin rejects when initialize rejects;
\* each of the three leaves the plugins and the three registries as they were.
C29_FailedCallsChangeNothing ==
  [][\A c \in Callers :
       LET out == pmOutcome'[c] IN
       /\ \A p \in PluginNames \cup {UnknownName} :
            /\ (StartedAs(c, "registerPlugin", p)
                  /\ p \in ElementsOf(pmPlugins)) =>
                 /\ pmCalls'[c].pc = "idle"
                 /\ ~out.ok /\ out.error = AlreadyRegistered(p)
                 /\ UNCHANGED <<pmPlugins, pmExtractors, pmTransformers,
                                pmLoaders>>
            /\ (StartedAs(c, "unregisterPlugin", p)
                  /\ p \notin ElementsOf(pmPlugins)) =>
                 /\ pmCalls'[c].pc = "idle"
                 /\ ~out.ok /\ out.error = NotRegistered(p)
                 /\ UNCHANGED <<pmPlugins, pmExtractors, pmTransformers,
                                pmLoaders>>
       /\ (pmCalls[c].pc = "initialize" /\ pmCalls'[c].pc = "idle"
             /\ ~out.ok) =>
            /\ \E e \in Thrown :
                 out.error = InitializeFailed(pmCalls[c].arg, e)
            /\ UNCHANGED <<pmPlugins, pmExtractors, pmTransformers,
                           pmLoaders>>
    ]_vars

\* A second registerPlugin of a registered plugin has just been rejected.
C29_Witness ==
  /\ pmOutcome["c1"].op = "registerPlugin" /\ ~pmOutcome["c1"].ok
  /\ pmOutcome["c1"].error = AlreadyRegistered(pmOutcome["c1"].arg)
  /\ pmOutcome["c1"].arg \in ElementsOf(pmPlugins)
  /\ pmExtractors # EmptyMap

\* ------------------------------------------ ErrorRecovery: lists of operations
\* C30: executeMultipleWithRecovery ends by returning, never by rejecting; the
\* list returned has one entry per operation, the value operation i resolved
\* with or null when the call for operation i was rejected after its last
\* attempt; and the call for an operation is made only when the calls for all
\* operations before it are settled and awaited.
C30_SequentialResultsByPosition ==
  /\ muPc \in {"idle", "running", "returned"}
  /\ muPc = "returned" =>
       /\ Len(muResults) = muLen
       /\ \A i \in 1..muLen :
            /\ Settled(muOps[i])
            /\ muResults[i] = IF muOps[i].pc = "returned"
                                THEN muOps[i].value
                                ELSE Null
  /\ \A j \in 1..muLen :
       muOps[j].pc # "waiting" =>
         /\ Len(muResults) >= j - 1
         /\ \A i \in 1..(j - 1) : Settled(muOps[i])

\* Three operations have been run: the first and the third resolved, the
\* second was retried and failed every time.
C30_Witness ==
  /\ muPc = "returned" /\ muLen = 3
  /\ muResults[1] # Null /\ muResults[2] = Null /\ muResults[3] # Null
  /\ muOps[2].pc = "thrown" /\ muOps[2].attempt = 2

\* C31: executeParallelWithRecovery makes the first call of every operation
\* before it awaits anything, ends by returning and never by rejecting, and
\* returns one entry per operation in list order whatever the order in which
\* the operations settled: the value operation i resolved with, or null when
\* the call for operation i was rejected after its last attempt.
C31_ParallelResultsByPosition ==
  /\ muPc \in {"idle", "awaitingAll", "returned"}
  /\ muPc # "idle" => \A i \in 1..muLen : muOps[i].pc # "waiting"
  /\ muPc = "returned" =>
       /\ Len(muResults) = muLen
       /\ \A i \in 1..muLen :
            /\ Settled(muOps[i])
            /\ muResults[i] = IF muOps[i].pc = "returned"
                                THEN muOps[i].value
                                ELSE Null

\* Three operations were run together: the third settled first and resolved,
\* the first failed all its attempts after a retry.
C31_Witness ==
  /\ muPc = "returned" /\ muLen = 3 /\ muFirst = 3
  /\ muOps[1].pc = "thrown" /\ muOps[1].attempt >= 2
  /\ muResults[1] = Null
  /\ muOps[3].pc = "returned" /\ muResults[3] = muOps[3].value
  /\ muResults[2] # muResults[3] /\ muResults[2] # Null

\* ------------------------------------------------ ETLPipeline: load and re-run
\* C32: a load step whose loader resolves leaves the carried value as it was:
\* what the loader resolved with is discarded, the next step is handed the
\* value the load step was handed and a run that ends after it returns that
\* value as data; no step of a run changes the step list or a registry; and
\* in every run, the first or a later one, a transform or load step whose
\* capability is registered invokes it with the carried value and is never
\* answered from the cache.
C32_LoadKeepsCarriedValue ==
  [][/\ (/\ pc = "awaiting"
         /\ steps[stepIdx].type = "load"
         /\ Len(stepResults') = Len(stepResults) + 1
         /\ LastOf(stepResults').success) =>
          /\ currentData' = pending.arg
          /\ currentData' = currentData
     /\ pc \in {"loop", "awaiting"} => steps' = steps /\ regs' = regs
     /\ (/\ ExecutesStep
         /\ steps[stepIdx].type \in {"transform", "load"}
         /\ steps[stepIdx].name \in Registry(steps[stepIdx])) =>
          /\ invoked' = Append(invoked, stepIdx)
          /\ served' = served
          /\ pc' = "awaiting"
          /\ pending'.arg = currentData
     /\ (pc = "loop" /\ pc' = "done" /\ result'.success) =>
          result'.data = currentData]_vars

\* The second run of extract-then-load has returned: the loader was invoked
\* again although the extract step was answered from the cache, and data is
\* what the extractor had given, not what the loader resolved with.
C32_Witness ==
  /\ runs = 2 /\ pc = "done" /\ result.success
  /\ Len(steps) = 2
  /\ steps[1].type = "extract" /\ steps[2].type = "load"
  /\ served = <<1>> /\ invoked = <<2>>
  /\ result.data = "d1"

\* C33 as stated: two extract steps with the same type, name and config have
\* the same cache key, and in a run with caching enabled the second of them,
\* reached while the entry the first one wrote is unexpired, is answered from
\* that entry: the extractor is invoked once in the run.
C33_IdenticalStepsShareEntry ==
  [][(/\ ExecutesStep
      /\ stepIdx = 2
      /\ steps[1].type = "extract" /\ steps[2].type = "extract"
      /\ steps[1].name = steps[2].name /\ steps[1].config = steps[2].config
      /\ steps[2].name \in extractors
      /\ config.enableCache
      /\ invoked = <<1>> /\ stepResults[1].success
      /\ generateCacheKey(steps[1]) \in DOMAIN cacheTimestamps
      /\ now - cacheTimestamps[generateCacheKey(steps[1])]
           <= config.cacheDuration) =>
       /\ generateCacheKey(steps[2]) = generateCacheKey(steps[1])
       /\ invoked' = <<1>>
       /\ served' = <<2>>
       /\ currentData' = cache[generateCacheKey(steps[1])]]_vars

\* C39 as stated: whether an extract step is answered from the cache depends
\* only on an unexpired entry being there, never on the value held: while the
\* extractor of a step is awaited with caching enabled there is no entry
\* under the key of the step (a missing one was never written, an expired one
\* was evicted by the lookup).
C39_FalsyValuesMemoized ==
  (/\ pc = "awaiting"
   /\ pending.type = "extract"
   /\ config.enableCache) =>
     generateCacheKey(steps[stepIdx]) \notin DOMAIN cacheTimestamps

\* ------------------------------------------- ETLPipeline: runs in flight
\* C34 as stated: the configuration of a run is the one in force when run()
\* was called: every read of this.config the run makes (whether an extract
\* step consults the cache, with which cacheDuration, and whether it stores
\* what the extractor gave) sees that configuration, whatever updateConfig
\* was called with while the run was suspended in the extractor.
C34_ConfigImmutablePerRun ==
  \A r \in RunIds :
    \A k \in 1..Len(ovRuns[r].reads) :
      ovRuns[r].reads[k] = ovRuns[r].snapshot

\* C37 as stated: with caching enabled the extractor is invoked at most once
\* for a cache key within one time-to-live window, also when a second run
\* starts while the first is suspended in the extractor: no call of the
\* extractor is made while an earlier call for the key is pending, nor within
\* cacheDuration of the time an earlier call for the key resolved.
C37_AtMostOncePerKey ==
  ovConfig.enableCache =>
    \A i, j \in 1..Len(ovInvoked) :
      (i < j /\ ovInvoked[i].state # "rejected") =>
        /\ ovInvoked[i].state = "resolved"
        /\ ovInvoked[j].at >= ovInvoked[i].settledAt
        /\ ovInvoked[j].at - ovInvoked[i].settledAt > ovConfig.cacheDuration

\* ------------------------------------------- PluginManager: calls in flight
\* C38 as stated: a name is registered at most once also when calls of
\* registerPlugin overlap: the initialize hook of a plugin is never awaited
\* by two calls at a time, and a call of registerPlugin(p) resolves only if
\* p is not registered at that moment, so that of two calls for one name at
\* most one succeeds.
C38_RegisteredAtMostOnce ==
  [][/\ \A c, d \in Callers :
          (/\ c # d
           /\ pmCalls[c].pc = "initialize"
           /\ pmCalls[d].pc = "initialize") => pmCalls[c].arg # pmCalls[d].arg
     /\ \A c \in Callers :
          (/\ pmCalls[c].pc = "initialize"
           /\ pmCalls'[c].pc = "idle"
           /\ pmOutcome'[c].ok) => ~hasPlugin(pmPlugins, pmCalls[c].arg)]_vars

\* ------------------------------------------ StreamProcessor.mergeStreams
AllInputsCompleted ==
  /\ mgMerged.state # "none"
  /\ \A i \in DOMAIN mgInputs : mgInputs[i].state = "closed"

\* C35 as stated: the merged stream is closed only when every input has been
\* closed by its producer and read to its end; for any number of inputs, once
\* every input is closed the merged stream does get closed; and when the read
\* of one input rejects while the merged stream is readable, the merged
\* stream is errored with that error in the same step, whatever the other
\* inputs are doing.
C35_MergedCompletesWithInputs ==
  /\ [](mgMerged.state = "closed" =>
          \A i \in DOMAIN mgInputs :
            mgInputs[i].state = "closed" /\ mgInputs[i].queued = 0)
  /\ [][\A i \in DOMAIN mgInputs :
          (/\ mgPumps[i] = "reading" /\ mgPumps'[i] = "failed"
           /\ mgInputs[i].state = "errored"
           /\ mgMerged.state = "readable") =>
            mgMerged' = [mgMerged EXCEPT !.state = "errored",
                                         !.error = InputError(i)]]_vars
  /\ (AllInputsCompleted ~> mgMerged.state = "closed")

\* ------------------------------------------ StreamProcessor: timed-out chunks
\* C36: when the timer of a chunk fires before the processor has settled,
\* nothing is appended and onBatch is not called for the chunk, and process
\* calls the processor on the next chunk (or returns when there is none);
\* when the abandoned processor settles later, results, the calls of onBatch,
\* the value returned and the position of process are what they were; and
\* the processor is called on a chunk only when every earlier call has
\* resolved, rejected or timed out.
C36_TimedOutChunkSkipped ==
  [][/\ (/\ stPc = "awaiting"
         /\ Len(stOutcomes') = Len(stOutcomes) + 1
         /\ LastOf(stOutcomes').kind = "timeout") =>
          /\ stResults' = stResults
          /\ stOnBatchLog' = stOnBatchLog
          /\ Len(stCalls) \in stAbandoned'
          /\ IF stI + stBatchSize < Len(stData)
               THEN /\ stPc' = "awaiting"
                    /\ Len(stCalls') = Len(stCalls) + 1
                    /\ LastOf(stCalls') =
                         Slice(stData, stI + stBatchSize, stBatchSize)
               ELSE /\ stPc' = "returned"
                    /\ stValue' = stResults
                    /\ stCalls' = stCalls
     /\ (stAbandoned' # stAbandoned /\ stOutcomes' = stOutcomes) =>
          /\ stResults' = stResults
          /\ stOnBatchLog' = stOnBatchLog
          /\ stValue' = stValue
          /\ stCalls' = stCalls
          /\ stPc' = stPc /\ stI' = stI
     /\ Len(stCalls') > Len(stCalls) =>
          /\ Len(stCalls') = Len(stCalls) + 1
          /\ Len(stOutcomes') = Len(stCalls)]_vars

\* The first chunk timed out and its processor has settled since; the second
\* chunk completed in time and is all that was returned and shown to onBatch.
C36_Witness ==
  /\ stEnabled /\ stPc = "returned"
  /\ Len(stOutcomes) = 2
  /\ stOutcomes[1].kind = "timeout" /\ stOutcomes[2].kind = "ok"
  /\ stAbandoned = {}
  /\ stOnBatch = "returns"
  /\ stOnBatchLog = <<stOutcomes[2].raw>>
  /\ stOutcomes[2].raw.isArray
  /\ stValue = Normalize(stOutcomes[2].raw)
  /\ Len(stCalls[1]) = 2

\* ------------------------------- the chunking loops, for any batchSize
\* C40 as stated: for every input length and every batchSize, zero and
\* negative ones included, each iteration of the chunking loop of process
\* and of enrichParallel leaves the index greater than it found it, and
\* when every chunk settles the call does resolve or reject in the end.
C40_ChunkingTerminates ==
  /\ [][(ckPc = "awaiting" /\ ckPc' \in {"awaiting", "returned"}) =>
          ckI' > ckI]_vars
  /\ <>(ckPc \in {"returned", "thrown"})

====
